---- MODULE Spec2Model ----
(***************************************************************************)
(* Bond valuation engine of bond-math (services/bond-valuation):           *)
(* day-count year fractions, the coupon schedule builder, the three bond   *)
(* calculators and the Newton-Raphson solver.                              *)
(*                                                                         *)
(* Numbers.  The engine computes with Python floats.  The model computes  *)
(* with exact rationals <<n, d>> (d > 0, lowest terms), so every relation  *)
(* below is a relation of exact arithmetic; float rounding is abstracted.  *)
(* A float division by zero raises ZeroDivisionError in Python and is an   *)
(* error outcome here.  Dates are triples <<year, month, day>>; None is    *)
(* the empty tuple.                                                        *)
(***************************************************************************)
EXTENDS Integers, Sequences, FiniteSets, TLC

VARIABLES
    spec,      \* the BondSpec of the request (types.py BondSpec)
    calc,      \* class of the calculator instance the request is sent to
    op,        \* operation of the last call ("none" before the first call
               \* on a calculator, "request" / "factory" before a conversion
               \* or a factory call)
    arg,       \* argument of the last call (ytm, clean_price, bond type, or
               \* the start, end and convention of a day-count call)
    guess,     \* initial guess passed to the last yield_from_price
    res,       \* outcome of the last call
    prior,     \* outcome of the call before the last one
    nrCalls,   \* number of newton_raphson invocations made by the last call
    nr,        \* the frame of a newton_raphson call that is stepped on its own
    body,      \* the request body given to request_to_bond_spec
    factory,   \* the CalculatorFactory instance (its _dcf and _sched)
    req,       \* a request executed statement by statement: the day-count
               \* calls it has made and the statements it has yet to execute
    builder,   \* the instance attributes of the ScheduleBuilder that the
               \* factory and its calculators share
    wreq       \* a workers-py Request: its attributes, the number of times
               \* the body of its raw request was read, and the outcomes of
               \* the calls made on it

vars == <<spec, calc, op, arg, guess, res, prior, nrCalls, nr, body, factory, req, builder, wreq>>

-----------------------------------------------------------------------------
(* Exact rational arithmetic standing for float arithmetic.                *)

\* the element of a one-element set: The({e(v) : v \in {expr}}) gives the
\* value of expr the name v and computes it once, as an assignment does
The(S) == CHOOSE v \in S : TRUE

Abs(i) == IF i < 0 THEN -i ELSE i

RECURSIVE GCD(_, _)
GCD(a, b) == IF b = 0 THEN a ELSE GCD(b, a % b)

\* n/d in lowest terms with a positive denominator
Q(n, d) ==
    The({IF d < 0 THEN <<-(n \div g), -(d \div g)>> ELSE <<n \div g, d \div g>>
         : g \in {GCD(Abs(n), Abs(d))}})

QInt(i)  == <<i, 1>>
Zero     == <<0, 1>>
One      == <<1, 1>>

QNeg(a)  == <<-a[1], a[2]>>
QAbs(a)  == <<Abs(a[1]), a[2]>>

QAdd(a, b) ==
    The({Q(a[1] * (l \div a[2]) + b[1] * (l \div b[2]), l)
         : l \in {(a[2] \div GCD(a[2], b[2])) * b[2]}})

QSub(a, b) == QAdd(a, QNeg(b))

QMul(a, b) ==
    The({<<(a[1] \div g[1]) * (b[1] \div g[2]),
           (a[2] \div g[2]) * (b[2] \div g[1])>>
         : g \in {<<GCD(Abs(a[1]), b[2]), GCD(Abs(b[1]), a[2])>>}})

\* a / b for b # 0 (callers test b = Zero first: ZeroDivisionError)
QDiv(a, b) ==
    QMul(a, IF b[1] < 0 THEN <<-b[2], -b[1]>> ELSE <<b[2], b[1]>>)

QLt(a, b) == QSub(a, b)[1] < 0
QLe(a, b) == QSub(a, b)[1] <= 0

QMax(a, b) == IF QLt(a, b) THEN b ELSE a

-----------------------------------------------------------------------------
(* datetime.date and dateutil.relativedelta(months=k).                     *)

NoDate == <<>>

IsLeap(y) == (y % 4 = 0) /\ ((y % 100 # 0) \/ (y % 400 = 0))

DaysInMonth(y, m) ==
    IF m = 2 THEN (IF IsLeap(y) THEN 29 ELSE 28)
    ELSE IF m \in {4, 6, 9, 11} THEN 30 ELSE 31

RECURSIVE DaysBeforeMonth(_, _)
DaysBeforeMonth(y, m) ==
    IF m = 1 THEN 0 ELSE DaysBeforeMonth(y, m - 1) + DaysInMonth(y, m - 1)

\* date.toordinal(): proleptic Gregorian day number
Ordinal(dt) ==
    LET y == dt[1] - 1
    IN  365 * y + (y \div 4) - (y \div 100) + (y \div 400)
        + DaysBeforeMonth(dt[1], dt[2]) + dt[3]

\* (b - a).days
DaysBetween(a, b) == Ordinal(b) - Ordinal(a)

DateLt(a, b) ==
    \/ a[1] < b[1]
    \/ a[1] = b[1] /\ a[2] < b[2]
    \/ a[1] = b[1] /\ a[2] = b[2] /\ a[3] < b[3]

DateLe(a, b) == a = b \/ DateLt(a, b)

Min(i, j) == IF i < j THEN i ELSE j

\* d - relativedelta(months=k): month arithmetic, day clamped to the
\* length of the target month
SubMonths(dt, k) ==
    LET t == dt[1] * 12 + (dt[2] - 1) - k
        y == t \div 12
        m == (t % 12) + 1
    IN  <<y, m, Min(dt[3], DaysInMonth(y, m))>>

-----------------------------------------------------------------------------
(* daycount/daycount_local.py                                              *)

_act_360(start, end) == Q(DaysBetween(start, end), 360)

_act_365f(start, end) == Q(DaysBetween(start, end), 365)

\* days / 365.25
_act_act_icma(start, end) == Q(4 * DaysBetween(start, end), 1461)

\* variant: the ISDA end-of-February rule, a month end counted as day 30
_30e_360_isda(start, end) ==
    LET d1 == Min(start[3], 30)
        d2 == IF end[3] = DaysInMonth(end[1], end[2]) THEN 30 ELSE end[3]
    IN  Q(360 * (end[1] - start[1]) + 30 * (end[2] - start[2]) + (d2 - d1), 360)

_30e_360(start, end) ==
    LET d1 == Min(start[3], 30)
        d2 == Min(end[3], 30)
    IN  Q(360 * (end[1] - start[1]) + 30 * (end[2] - start[2]) + (d2 - d1), 360)

\* variant: the end day is adjusted only after a start day beyond the 30th
us_30_360_strict(start, end) ==
    LET d1 == IF start[3] = 31 THEN 30 ELSE start[3]
        d2 == IF end[3] = 31 /\ d1 > 30 THEN 30 ELSE end[3]
    IN  Q(360 * (end[1] - start[1]) + 30 * (end[2] - start[2]) + (d2 - d1), 360)

us_30_360(start, end) ==
    LET d1 == IF start[3] = 31 THEN 30 ELSE start[3]
        d2 == IF end[3] = 31 /\ d1 >= 30 THEN 30 ELSE end[3]
    IN  Q(360 * (end[1] - start[1]) + 30 * (end[2] - start[2]) + (d2 - d1), 360)

DayCounts == {"ACT_ACT_ICMA", "ACT_365F", "ACT_360", "_30E_360", "US_30_360"}

\* the convention is a member of the DayCount enum, so the final raise of
\* the source is unreachable from a BondSpec
calculate_year_fraction(start, end, convention) ==
    CASE convention = "ACT_360"      -> _act_360(start, end)
      [] convention = "ACT_365F"     -> _act_365f(start, end)
      [] convention = "ACT_ACT_ICMA" -> _act_act_icma(start, end)
      [] convention = "_30E_360"     -> _30e_360(start, end)
      [] convention = "US_30_360"    -> us_30_360(start, end)

-----------------------------------------------------------------------------
(* schedule/builder.py                                                     *)

InSeq(x, s) == \E i \in 1..Len(s) : s[i] = x

\* variant: the walk keeps the first date at or before the stop line
RECURSIVE WalkBack_through(_, _, _, _)
WalkBack_through(d, months, stop_line, dates) ==
    LET d2 == SubMonths(d, months)
    IN  IF DateLe(d2, stop_line) THEN Append(dates, d2)
        ELSE WalkBack_through(d2, months, stop_line, Append(dates, d2))

\* the while-loop of build: step back `months` from d until the stop line
RECURSIVE WalkBack(_, _, _, _)
WalkBack(d, months, stop_line, dates) ==
    LET d2 == SubMonths(d, months)
    IN  IF DateLe(d2, stop_line) THEN dates
        ELSE WalkBack(d2, months, stop_line, Append(dates, d2))

RECURSIVE InsertSorted(_, _)
InsertSorted(x, s) ==
    IF s = <<>> THEN <<x>>
    ELSE IF DateLt(x, s[1]) THEN <<x>> \o s
    ELSE <<s[1]>> \o InsertSorted(x, Tail(s))

\* sorted(dates); equal dates keep their order (the sort is stable)
RECURSIVE sorted(_)
sorted(s) ==
    IF s = <<>> THEN <<>>
    ELSE InsertSorted(s[Len(s)], sorted(SubSeq(s, 1, Len(s) - 1)))

\* variant: an override date is appended whether or not it is among the
\* dates already
AppendNew_unchecked(dates, d) ==
    IF d # NoDate THEN Append(dates, d) ELSE dates

\* lines 32-33 and 34-35: an override date that is given and not yet among
\* the dates is appended
AppendNew(dates, d) ==
    IF d # NoDate /\ ~InSeq(d, dates) THEN Append(dates, d) ELSE dates

\* variant: with the end-of-month rule set and maturity on the last day of
\* its month, every walked date is moved to the last day of its month
build_eom(sp) ==
    IF sp.frequency <= 0 THEN <<sp.maturity>>
    ELSE
      LET months    == 12 \div sp.frequency
          stop_line == IF sp.issue_date # NoDate THEN sp.issue_date
                       ELSE sp.settlement
          walked    == WalkBack(sp.maturity, months, stop_line, <<sp.maturity>>)
          eom       == sp.eom_rule
                         /\ sp.maturity[3]
                              = DaysInMonth(sp.maturity[1], sp.maturity[2])
          moved     == [i \in 1..Len(walked) |->
                          IF eom
                          THEN <<walked[i][1], walked[i][2],
                                 DaysInMonth(walked[i][1], walked[i][2])>>
                          ELSE walked[i]]
      IN  sorted(AppendNew(AppendNew(moved, sp.first_coupon), sp.last_coupon))

build(sp) ==
    IF sp.frequency <= 0 THEN <<sp.maturity>>
    ELSE
      LET months    == 12 \div sp.frequency
          stop_line == IF sp.issue_date # NoDate THEN sp.issue_date
                       ELSE sp.settlement
          walked    == WalkBack(sp.maturity, months, stop_line, <<sp.maturity>>)
      IN  sorted(AppendNew(AppendNew(walked, sp.first_coupon), sp.last_coupon))

\* variant: the builder keeps the schedule it built first in an attribute
\* and returns it from then on
ScheduleBuilder_build_memo(self, sp) ==
    IF self # {} THEN [ret |-> (CHOOSE a \in self : a[1] = "_dates")[2], self |-> self]
    ELSE [ret |-> build(sp), self |-> {<<"_dates", build(sp)>>}]

\* the method with its self: what it returns, and the instance attributes
\* after the call; build reads no attribute of self and assigns none
ScheduleBuilder_build(self, sp) == [ret |-> build(sp), self |-> self]

-----------------------------------------------------------------------------
(* Outcomes of a call: a value, or a raised exception.                     *)

Val(v)   == [ok |-> TRUE, v |-> v]
Raise(e) == [ok |-> FALSE, e |-> e]

ZeroDivisionError == "ZeroDivisionError"
ZeroDerivative    == "Zero derivative in Newton-Raphson."
DidNotConverge    == "Newton-Raphson did not converge."

PricingResult(clean, dirty, accrued, ytm) ==
    [kind |-> "PricingResult", clean |-> clean, dirty |-> dirty,
     accrued |-> accrued, ytm |-> ytm]

Raised(e) == [kind |-> "raise", error |-> e]

\* variant: the clean price is reported gross of the accrued interest
Result_gross(dirty, accrued, ytm) ==
    IF ~dirty.ok THEN Raised(dirty.e)
    ELSE IF ~accrued.ok THEN Raised(accrued.e)
    ELSE PricingResult(dirty.v, dirty.v, accrued.v, ytm)

\* return PricingResult(clean=dirty - accrued, dirty=dirty, accrued=accrued,
\* ytm=ytm), or the exception that computing dirty or accrued raised (both
\* can only raise ZeroDivisionError)
Result(dirty, accrued, ytm) ==
    IF ~dirty.ok THEN Raised(dirty.e)
    ELSE IF ~accrued.ok THEN Raised(accrued.e)
    ELSE PricingResult(QSub(dirty.v, accrued.v), dirty.v, accrued.v, ytm)

-----------------------------------------------------------------------------
(* calculators/base.py: BondCalculator.accrued_interest                    *)

BondTypes == {"DISCOUNTED", "INTEREST_AT_MATURITY", "REGULAR"}

MaxDate(S) == CHOOSE d \in S : \A e \in S : DateLe(e, d)
MinDate(S) == CHOOSE d \in S : \A e \in S : DateLe(d, e)

SeqSet(s) == {s[i] : i \in 1..Len(s)}

\* self._yf: the day-count function the calculator was constructed with
yf(start, end, convention) == calculate_year_fraction(start, end, convention)

\* lines 52-55: the accrual of the period [prev, nxt)
period_accrued(sp, prev, nxt) ==
    LET yf_period == yf(prev, nxt, sp.day_count)
        yf_accr   == yf(prev, sp.settlement, sp.day_count)
        coupon    == QDiv(QMul(sp.face, sp.coupon_rate), QInt(sp.frequency))
    IN  IF yf_period = Zero THEN Raise(ZeroDivisionError)
        ELSE Val(QMul(coupon, QDiv(yf_accr, yf_period)))

\* variant: prev is the latest schedule date strictly before settlement
regular_accrued_strict(sp, schedule) ==
    LET before == {d \in schedule : DateLt(d, sp.settlement)}
        after  == {d \in schedule : DateLt(sp.settlement, d)}
    IN  IF before = {} \/ after = {} THEN Val(Zero)
        ELSE period_accrued(sp, MaxDate(before), MinDate(after))

\* lines 48-55: prev and nxt among the dates of the schedule
regular_accrued(sp, schedule) ==
    LET before == {d \in schedule : DateLe(d, sp.settlement)}
        after  == {d \in schedule : DateLt(sp.settlement, d)}
    IN  IF before = {} \/ after = {} THEN Val(Zero)
        ELSE period_accrued(sp, MaxDate(before), MinDate(after))

\* variant: the interest-at-maturity accrual runs to maturity
accrued_interest_to_maturity(sp) ==
    IF sp.bond_type = "REGULAR" THEN regular_accrued(sp, SeqSet(build(sp)))
    ELSE IF sp.bond_type = "INTEREST_AT_MATURITY" THEN
        LET anchor  == IF sp.issue_date # NoDate THEN sp.issue_date ELSE sp.settlement
            yf_accr == yf(anchor, sp.maturity, sp.day_count)
        IN  Val(QMul(QMul(sp.face, sp.coupon_rate), yf_accr))
    ELSE Val(Zero)

accrued_interest(sp) ==
    IF sp.bond_type = "REGULAR" THEN regular_accrued(sp, SeqSet(build(sp)))
    ELSE IF sp.bond_type = "INTEREST_AT_MATURITY" THEN
        LET anchor  == IF sp.issue_date # NoDate THEN sp.issue_date ELSE sp.settlement
            yf_accr == yf(anchor, sp.settlement, sp.day_count)
        IN  Val(QMul(QMul(sp.face, sp.coupon_rate), yf_accr))
    ELSE Val(Zero)

-----------------------------------------------------------------------------
(* calculators/discounted.py                                               *)

\* amount / (1 + ytm * Y)
discount(amount, ytm, Y) ==
    LET den == QAdd(One, QMul(ytm, Y))
    IN  IF den = Zero THEN Raise(ZeroDivisionError) ELSE Val(QDiv(amount, den))

Discounted_price_from_yield(sp, ytm) ==
    LET Y == yf(sp.settlement, sp.maturity, sp.day_count)
    IN  Result(discount(sp.face, ytm, Y), Val(Zero), ytm)

\* variant: the simple return over the whole term, not annualised by Y
Discounted_yield_from_price_unscaled(sp, clean_price, g) ==
    LET Y == yf(sp.settlement, sp.maturity, sp.day_count)
    IN  IF clean_price = Zero \/ Y = Zero THEN Raised(ZeroDivisionError)
        ELSE Discounted_price_from_yield(
                 sp, QSub(QDiv(sp.face, clean_price), One))

Discounted_yield_from_price(sp, clean_price, g) ==
    LET Y == yf(sp.settlement, sp.maturity, sp.day_count)
    IN  IF clean_price = Zero \/ Y = Zero THEN Raised(ZeroDivisionError)
        ELSE Discounted_price_from_yield(
                 sp, QDiv(QSub(QDiv(sp.face, clean_price), One), Y))

-----------------------------------------------------------------------------
(* calculators/iam.py                                                      *)

IAM_redemption(sp) ==
    LET coupon_anchor == IF sp.issue_date # NoDate THEN sp.issue_date
                         ELSE sp.settlement
        Y_coupon      == yf(coupon_anchor, sp.maturity, sp.day_count)
    IN  QMul(sp.face, QAdd(One, QMul(sp.coupon_rate, Y_coupon)))

IAM_price_from_yield(sp, ytm) ==
    LET redemption == IAM_redemption(sp)
        Y_discount == yf(sp.settlement, sp.maturity, sp.day_count)
    IN  Result(discount(redemption, ytm, Y_discount), accrued_interest(sp), ytm)

\* r.dirty - target_dirty of a price_from_yield outcome r
dirty_minus(r, target_dirty) ==
    IF r.kind = "raise" THEN Raise(r.error)
    ELSE Val(QSub(r.dirty, target_dirty))

\* f and df of InterestAtMaturityCalculator.yield_from_price
IAM_f(sp, target_dirty, y) ==
    dirty_minus(IAM_price_from_yield(sp, y), target_dirty)

\* lines 31-32
IAM_slope(redemption, Y_discount, y) ==
    LET denom == QAdd(One, QMul(y, Y_discount))
    IN  IF denom = Zero THEN Raise(ZeroDivisionError)
        ELSE Val(QDiv(QNeg(QMul(redemption, Y_discount)), QMul(denom, denom)))

IAM_df(sp, y) ==
    IAM_slope(IAM_redemption(sp),
              yf(sp.settlement, sp.maturity, sp.day_count), y)

-----------------------------------------------------------------------------
(* Float power.  x ** t is the one operation of the engine that leaves the *)
(* rationals.  Its model is exact for x = 1, t = 0 and t = 1; otherwise    *)
(* the integer part of t is a repeated product and the fractional part a   *)
(* linear interpolation between consecutive integer powers, each rounded   *)
(* to the nearest multiple of 1/Grid (a finite-precision result, as a      *)
(* float is).  Values with a denominator up to Grid are kept exact.        *)

Grid == 1000

\* <<floor(a*b/c), (a*b) % c>> for 0 <= a < c, computed without forming a*b
RECURSIVE MulDivMod(_, _, _)
MulDivMod(a, b, c) ==
    IF b = 0 THEN <<0, 0>>
    ELSE LET h == MulDivMod(a, b \div 2, c)
             r == 2 * h[2] + (IF b % 2 = 1 THEN a ELSE 0)
         IN  <<2 * h[1] + (r \div c), r % c>>

\* i + m[1]/Grid, one more 1/Grid if the remainder m[2]/d is a half or more
Rounded(i, m, d) ==
    QAdd(QInt(i), Q(m[1] + (IF 2 * m[2] >= d THEN 1 ELSE 0), Grid))

Fl(q) ==
    IF q[2] <= Grid THEN q
    ELSE Rounded(q[1] \div q[2], MulDivMod(q[1] % q[2], Grid, q[2]), q[2])

RECURSIVE PowInt(_, _)
PowInt(x, k) == IF k = 0 THEN One ELSE Fl(QMul(PowInt(x, k - 1), x))

\* b ** t for the rounded base b and k the integer part of t
pow_parts(b, k, t) ==
    Fl(QMul(PowInt(b, k),
            Fl(QAdd(One, QMul(QSub(t, QInt(k)), QSub(b, One))))))

\* x ** t for x >= 0 and t >= 0
pow(x, t) ==
    IF t = Zero THEN One
    ELSE IF x = Zero THEN Zero
    ELSE pow_parts(Fl(x), t[1] \div t[2], t)

-----------------------------------------------------------------------------
(* calculators/regular.py                                                  *)

\* variant: the coupon alone on every date, the final one included
flow_coupon_only(sp, schedule, dt) ==
    QDiv(QMul(sp.face, sp.coupon_rate), QInt(sp.frequency))

\* lines 19-21: the flow paid on dt
flow(sp, schedule, dt) ==
    LET cf == QDiv(QMul(sp.face, sp.coupon_rate), QInt(sp.frequency))
    IN  IF dt = schedule[Len(schedule)] THEN QAdd(cf, sp.face) ELSE cf

\* lines 17-18 and 22: (1 + y / m) ** t for t = m * yf(settlement, dt)
growth(sp, y, dt) ==
    pow(QAdd(One, QDiv(y, QInt(sp.frequency))),
        QMul(QInt(sp.frequency), yf(sp.settlement, dt, sp.day_count)))

RECURSIVE Regular_sum(_, _, _, _, _)
RECURSIVE add_flow(_, _, _, _, _, _, _)

\* line 22: dirty += cf / p, and on to the next date
add_flow(sp, schedule, y, i, total, cf, p) ==
    IF p = Zero THEN Raise(ZeroDivisionError)
    ELSE Regular_sum(sp, schedule, y, i + 1, Fl(QAdd(total, Fl(QDiv(cf, p)))))

\* the loop shared by price_from_yield and price_y: add to `total` the
\* discounted flows of the schedule dates after settlement, from index i on
Regular_sum(sp, schedule, y, i, total) ==
    IF i > Len(schedule) THEN Val(total)
    ELSE IF DateLe(schedule[i], sp.settlement)
    THEN Regular_sum(sp, schedule, y, i + 1, total)
    ELSE add_flow(sp, schedule, y, i, total,
                  flow(sp, schedule, schedule[i]), growth(sp, y, schedule[i]))

Regular_price_from_yield(sp, ytm) ==
    Result(Regular_sum(sp, build(sp), ytm, 1, Zero), accrued_interest(sp), ytm)

\* total - target_dirty of a price_y outcome
minus_target(total, target_dirty) ==
    IF ~total.ok THEN total ELSE Val(QSub(total.v, target_dirty))

\* f and df of RegularCouponCalculator.yield_from_price
Regular_f(sp, target_dirty, y) ==
    minus_target(Regular_sum(sp, build(sp), y, 1, Zero), target_dirty)

\* (hi - lo) / (2 * eps)
central_difference(hi, lo, eps) ==
    IF ~hi.ok THEN hi
    ELSE IF ~lo.ok THEN lo
    ELSE Val(QDiv(QSub(hi.v, lo.v), QMul(QInt(2), eps)))

Regular_df(sp, target_dirty, y) ==
    LET eps == QMax(<<1, 10000000>>, QMul(QAbs(y), <<1, 100000>>))
    IN  central_difference(Regular_f(sp, target_dirty, QAdd(y, eps)),
                           Regular_f(sp, target_dirty, QSub(y, eps)), eps)

-----------------------------------------------------------------------------
(* calculators/base.py: newton_raphson                                     *)
(* The function to solve is described by a record: the f and df closures   *)
(* of the two calculators, or an affine test pair f(x) = fa*x + fb,        *)
(* df(x) = da*x + db (df need not be the derivative of f).                 *)

NoSpec == [face |-> Zero]

AffineProb(fa, fb, da, db) ==
    [kind |-> "affine", sp |-> NoSpec, target |-> Zero,
     fa |-> fa, fb |-> fb, da |-> da, db |-> db]

CalcProb(kind, sp, target) ==
    [kind |-> kind, sp |-> sp, target |-> target,
     fa |-> 0, fb |-> 0, da |-> 0, db |-> 0]

F(prob, x) ==
    CASE prob.kind = "INTEREST_AT_MATURITY" -> IAM_f(prob.sp, prob.target, x)
      [] prob.kind = "REGULAR" -> Regular_f(prob.sp, prob.target, x)
      [] prob.kind = "affine"  -> Val(QAdd(QMul(QInt(prob.fa), x), QInt(prob.fb)))

DF(prob, x) ==
    CASE prob.kind = "INTEREST_AT_MATURITY" -> IAM_df(prob.sp, x)
      [] prob.kind = "REGULAR" -> Regular_df(prob.sp, prob.target, x)
      [] prob.kind = "affine"  -> Val(QAdd(QMul(QInt(prob.da), x), QInt(prob.db)))

\* A tolerance n/(d1*d2) is the triple <<n, d1, d2>>: 1e-10 has a
\* denominator beyond the integers of the checker.
DefaultTol     == <<1, 100000, 100000>>
DefaultMaxIter == 100
DefaultGuess   == <<1, 20>>

\* abs(step) < tol
AbsLtTol(step, tol) ==
    LET a == Abs(step[1])
        r == tol[1] * step[2]
    IN  IF a = 0 THEN tol[1] > 0
        ELSE IF a > 2147483647 \div tol[2] THEN FALSE
        ELSE a * tol[2] < (r + tol[3] - 1) \div tol[3]

\* no value has been returned
NoValue == <<>>

\* the frame of a call: x, the loop counter i, and what the call has done
NRFrame(prob, x0, tol, max_iter) ==
    [prob |-> prob, x0 |-> x0, x |-> x0, tol |-> tol, max_iter |-> max_iter,
     i |-> 0, status |-> "running", error |-> "none", value |-> NoValue,
     fEvals |-> 0, dfEvals |-> 0, trace |-> <<>>]

\* variant: `return x` comes before `x -= step`, the iterate of the pass is
\* handed back without its update
NRIter_before_update(fr) ==
    The({
        IF ~fx.ok
        THEN [fr EXCEPT !.status = "raised", !.error = fx.e,
                        !.fEvals = @ + 1]
        ELSE The({
              IF ~dfx.ok
              THEN [fr EXCEPT !.status = "raised", !.error = dfx.e,
                              !.fEvals = @ + 1, !.dfEvals = @ + 1]
              ELSE IF dfx.v = Zero
              THEN [fr EXCEPT !.status = "raised", !.error = ZeroDerivative,
                              !.fEvals = @ + 1, !.dfEvals = @ + 1,
                              !.trace = Append(@, [x |-> fr.x, fx |-> fx.v,
                                                   dfx |-> dfx.v])]
              ELSE The({
                    [fr EXCEPT !.x = QSub(fr.x, step),
                               !.i = @ + 1,
                               !.status = IF AbsLtTol(step, fr.tol)
                                          THEN "returned" ELSE "running",
                               !.value = IF AbsLtTol(step, fr.tol)
                                         THEN fr.x ELSE NoValue,
                               !.fEvals = @ + 1, !.dfEvals = @ + 1,
                               !.trace = Append(@, [x |-> fr.x, fx |-> fx.v,
                                                    dfx |-> dfx.v])]
                    : step \in {QDiv(fx.v, dfx.v)}})
              : dfx \in {DF(fr.prob, fr.x)}})
        : fx \in {F(fr.prob, fr.x)}})

\* one pass of the loop body (i < max_iter)
NRIter(fr) ==
    The({
        IF ~fx.ok
        THEN [fr EXCEPT !.status = "raised", !.error = fx.e,
                        !.fEvals = @ + 1]
        ELSE The({
              IF ~dfx.ok
              THEN [fr EXCEPT !.status = "raised", !.error = dfx.e,
                              !.fEvals = @ + 1, !.dfEvals = @ + 1]
              ELSE IF dfx.v = Zero
              THEN [fr EXCEPT !.status = "raised", !.error = ZeroDerivative,
                              !.fEvals = @ + 1, !.dfEvals = @ + 1,
                              !.trace = Append(@, [x |-> fr.x, fx |-> fx.v,
                                                   dfx |-> dfx.v])]
              ELSE The({
                    [fr EXCEPT !.x = QSub(fr.x, step),
                               !.i = @ + 1,
                               !.status = IF AbsLtTol(step, fr.tol)
                                          THEN "returned" ELSE "running",
                               !.value = IF AbsLtTol(step, fr.tol)
                                         THEN QSub(fr.x, step) ELSE NoValue,
                               !.fEvals = @ + 1, !.dfEvals = @ + 1,
                               !.trace = Append(@, [x |-> fr.x, fx |-> fx.v,
                                                    dfx |-> dfx.v])]
                    : step \in {QDiv(fx.v, dfx.v)}})
              : dfx \in {DF(fr.prob, fr.x)}})
        : fx \in {F(fr.prob, fr.x)}})

\* variant: the last iterate is handed back when the passes run out
NRExhausted_returns(fr) ==
    [fr EXCEPT !.status = "returned", !.value = fr.x]

\* the raise after the loop
NRExhausted(fr) == [fr EXCEPT !.status = "raised", !.error = DidNotConverge]

\* variant: one pass too many, range(max_iter + 1)
InRange_inclusive(fr) == fr.i <= fr.max_iter

\* for _ in range(max_iter): another pass is due
InRange(fr) == fr.i < fr.max_iter

NRNext(fr) == IF InRange(fr) THEN NRIter(fr) ELSE NRExhausted(fr)

RECURSIVE NRRun(_)
NRRun(fr) == IF fr.status # "running" THEN fr ELSE NRRun(NRNext(fr))

newton_raphson(prob, x0, tol, max_iter) ==
    NRRun(NRFrame(prob, x0, tol, max_iter))

-----------------------------------------------------------------------------
(* Dispatch on the class of the calculator instance (factory.py), and     *)
(* yield_from_price of the two calculators that solve numerically.  The    *)
(* result carries the number of newton_raphson calls it made.              *)

price_from_yield(c, sp, ytm) ==
    CASE c = "DISCOUNTED"           -> Discounted_price_from_yield(sp, ytm)
      [] c = "INTEREST_AT_MATURITY" -> IAM_price_from_yield(sp, ytm)
      [] c = "REGULAR"              -> Regular_price_from_yield(sp, ytm)

WithCalls(r, n) == [r |-> r, calls |-> n]

\* variant: a failed newton_raphson is called once more from another guess,
\* where it fails again (f and df are the same closures)
reprice_retrying(c, sp, sol) ==
    IF sol.status = "raised" THEN WithCalls(Raised(sol.error), 2)
    ELSE WithCalls(price_from_yield(c, sp, sol.value), 1)

\* return self.price_from_yield(spec, y_star), unless newton_raphson raised
reprice(c, sp, sol) ==
    IF sol.status = "raised" THEN WithCalls(Raised(sol.error), 1)
    ELSE WithCalls(price_from_yield(c, sp, sol.value), 1)

\* accrued, target_dirty = clean_price + accrued, y_star = newton_raphson(f,
\* df, x0=guess), with f and df the closures of calculator c
solve(c, sp, clean_price, accrued, g) ==
    IF ~accrued.ok THEN WithCalls(Raised(accrued.e), 0)
    ELSE reprice(c, sp,
                 newton_raphson(CalcProb(c, sp, QAdd(clean_price, accrued.v)),
                                g, DefaultTol, DefaultMaxIter))

yield_from_price(c, sp, clean_price, g) ==
    IF c = "DISCOUNTED"
    THEN WithCalls(Discounted_yield_from_price(sp, clean_price, g), 0)
    ELSE solve(c, sp, clean_price, accrued_interest(sp), g)

-----------------------------------------------------------------------------
(* Inputs.                                                                 *)

BondSpec(settlement, maturity, issue_date, face, coupon_rate, frequency, day_count, first_coupon, last_coupon, bond_type) ==
    [settlement |-> settlement, maturity |-> maturity,
     issue_date |-> issue_date, face |-> face, coupon_rate |-> coupon_rate,
     frequency |-> frequency, day_count |-> day_count, eom_rule |-> TRUE,
     stub_position |-> "NONE", first_coupon |-> first_coupon,
     last_coupon |-> last_coupon, bond_type |-> bond_type]

Frequencies == {1, 2, 4, 12}
Faces       == {Zero, One}
CouponRates == {Zero, <<1, 20>>}
Yields      == {Zero, <<1, 20>>, <<1, 10>>, <<-1, 20>>}
Prices      == {Zero, <<49, 50>>}

NoResult == [kind |-> "none"]
NRIdle   == [status |-> "idle"]
NoBody   == [kind |-> "none"]
NoFactory == [kind |-> "none"]
NoReq    == [kind |-> "none"]
NoWReq   == [kind |-> "none"]

\* a ScheduleBuilder() has no instance attribute: the class defines none
NoAttrs  == {}

\* calculator class and bond type of the spec: the factory pairs them, a
\* caller constructing a calculator directly need not
CalcPairs ==
    {<<t, t>> : t \in BondTypes}
      \cup {<<"DISCOUNTED", "REGULAR">>, <<"DISCOUNTED", "INTEREST_AT_MATURITY">>,
            <<"INTEREST_AT_MATURITY", "REGULAR">>}

PricingSpecs ==
    {BondSpec(<<2025, 1, 15>>, mat, iss, fc, cr, fq, dc, NoDate, NoDate, bt) :
        mat \in {<<2025, 7, 15>>, <<2026, 1, 31>>},
        iss \in {NoDate, <<2024, 10, 15>>, <<2025, 1, 15>>},
        fc \in Faces, cr \in CouponRates, fq \in Frequencies,
        dc \in DayCounts, bt \in BondTypes}

Fresh ==
    /\ op = "none" /\ arg = Zero /\ guess = Zero
    /\ res = NoResult /\ prior = NoResult /\ nrCalls = 0
    /\ body = NoBody /\ factory = NoFactory /\ req = NoReq
    /\ builder = NoAttrs /\ wreq = NoWReq

Init ==
    /\ spec \in PricingSpecs
    /\ calc \in BondTypes
    /\ <<calc, spec.bond_type>> \in CalcPairs
    /\ Fresh
    /\ nr = NRIdle

-----------------------------------------------------------------------------
(* Calls.  Each is one request against the calculator; a request is made   *)
(* on a fresh calculator state or, for the round trip, on the result of a  *)
(* price_from_yield.                                                       *)

PriceFromYield ==
    /\ op = "none"
    /\ \E y \in Yields :
         /\ op' = "price_from_yield"
         /\ arg' = y
         /\ res' = price_from_yield(calc, spec, y)
    /\ prior' = res
    /\ nrCalls' = 0
    /\ UNCHANGED <<wreq, builder, req, body, factory, spec, calc, guess, nr>>

\* The inputs on which exact arithmetic decides the solver's outcome in its
\* first pass: a zero face value (f is constant), or a start at the root;
\* and the inputs on which accrued_interest raises, before the solver.
\* A regular-coupon inversion of a non-zero face needs a central difference
\* of an irrational function over 1e-7 and is outside the model.
ExactlyDecided(c, sp, clean_price, g) ==
    \/ c = "DISCOUNTED"
    \/ sp.face = Zero
    \/ ~accrued_interest(sp).ok
    \/ /\ c = "INTEREST_AT_MATURITY" /\ op = "price_from_yield"
       /\ res.kind = "PricingResult" /\ res.ytm = g /\ res.clean = clean_price

DoYieldFromPrice(clean_price, g) ==
    /\ ExactlyDecided(calc, spec, clean_price, g)
    /\ \E out \in {yield_from_price(calc, spec, clean_price, g)} :
         /\ res' = out.r
         /\ nrCalls' = out.calls
    /\ op' = "yield_from_price"
    /\ arg' = clean_price
    /\ guess' = g
    /\ prior' = res
    /\ UNCHANGED <<wreq, builder, req, body, factory, spec, calc, nr>>

YieldFromPrice ==
    /\ op = "none"
    /\ \E p \in Prices : DoYieldFromPrice(p, DefaultGuess)

\* price_from_yield, then yield_from_price on the clean price it returned
RoundTrip ==
    /\ op = "price_from_yield"
    /\ res.kind = "PricingResult"
    /\ \E g \in {DefaultGuess, res.ytm} : DoYieldFromPrice(res.clean, g)

AccruedInterest ==
    /\ op = "none"
    /\ op' = "accrued_interest"
    /\ \E a \in {accrued_interest(spec)} :
         res' = IF a.ok THEN [kind |-> "float", value |-> a.v]
                ELSE Raised(a.e)
    /\ prior' = res
    /\ UNCHANGED <<wreq, builder, req, body, factory, spec, calc, arg, guess, nrCalls, nr>>

\* self._sched.build(spec) on the shared builder
Build ==
    /\ op = "none"
    /\ op' = "build"
    /\ \E r \in {ScheduleBuilder_build(builder, spec)} :
         /\ res' = [kind |-> "schedule", dates |-> r.ret]
         /\ builder' = r.self
    /\ prior' = res
    /\ UNCHANGED <<wreq, req, body, factory, spec, calc, arg, guess, nrCalls, nr>>

Next ==
    \/ PriceFromYield
    \/ YieldFromPrice
    \/ RoundTrip
    \/ AccruedInterest
    \/ Build

Spec == Init /\ [][Next]_vars

-----------------------------------------------------------------------------
(* The schedule builder and the accrual on irregular schedules: month-end  *)
(* maturities, overrides before the stop line, on a walked date, next to   *)
(* maturity and after it, and the two overrides on one date.               *)

SchedSpecs ==
    {BondSpec(st, mat, iss, One, <<1, 20>>, fq, dc, fst, lst, "REGULAR") :
        st  \in {<<2025, 1, 15>>, <<2025, 7, 30>>},
        mat \in {<<2025, 7, 31>>, <<2026, 2, 28>>},
        iss \in {NoDate, <<2024, 6, 1>>},
        fq  \in Frequencies, dc \in DayCounts,
        fst \in {NoDate, <<2024, 12, 31>>, <<2025, 1, 31>>, <<2025, 4, 30>>,
                 <<2025, 7, 30>>},
        lst \in {NoDate, <<2025, 7, 30>>, <<2026, 3, 31>>}}

InitSched ==
    /\ spec \in SchedSpecs
    /\ calc = "REGULAR"
    /\ Fresh
    /\ nr = NRIdle

NextSched == Build \/ AccruedInterest

SpecSched == InitSched /\ [][NextSched]_vars

-----------------------------------------------------------------------------
(* Accrual day by day: settlement runs over every day of a window.         *)

DayWindow == 75

NextDay(dt) ==
    IF dt[3] < DaysInMonth(dt[1], dt[2]) THEN <<dt[1], dt[2], dt[3] + 1>>
    ELSE IF dt[2] < 12 THEN <<dt[1], dt[2] + 1, 1>>
    ELSE <<dt[1] + 1, 1, 1>>

RECURSIVE DaysFrom(_, _)
DaysFrom(dt, n) == IF n = 0 THEN {} ELSE {dt} \cup DaysFrom(NextDay(dt), n - 1)

DaySpecs ==
    {BondSpec(st, mat, <<2024, 11, 10>>, One, <<1, 20>>, fq, dc,
              NoDate, NoDate, "REGULAR") :
        st  \in DaysFrom(<<2024, 12, 20>>, DayWindow),
        mat \in {<<2025, 5, 31>>, <<2026, 2, 28>>},
        fq  \in Frequencies, dc \in DayCounts}

InitDays ==
    /\ spec \in DaySpecs
    /\ calc = "REGULAR"
    /\ Fresh
    /\ nr = NRIdle

NextDays == AccruedInterest

SpecDays == InitDays /\ [][NextDays]_vars

-----------------------------------------------------------------------------
(* newton_raphson stepped pass by pass on affine test pairs.               *)

MaxIterBound == 3

NRProbs ==
    {AffineProb(fa, fb, 0, db) :
        fa \in {0, 1}, fb \in {-1, 0, 1}, db \in {-1, 0, 2}}
    \cup {AffineProb(fa, fb, 1, -1) : fa \in {0, 1}, fb \in {-1, 0, 1}}

InitNR ==
    /\ spec = NoSpec
    /\ calc = "none"
    /\ Fresh
    /\ nr \in {NRFrame(p, QInt(x0), tol, mi) :
                 p \in NRProbs, x0 \in {0, 1, 2},
                 tol \in {<<1, 4, 1>>, DefaultTol}, mi \in 0..MaxIterBound}

NRIterate ==
    /\ nr.status = "running"
    /\ InRange(nr)
    /\ nr' = NRIter(nr)
    /\ UNCHANGED <<wreq, builder, req, body, factory, spec, calc, op, arg, guess, res, prior, nrCalls>>

NRExhaust ==
    /\ nr.status = "running"
    /\ ~InRange(nr)
    /\ nr' = NRExhausted(nr)
    /\ UNCHANGED <<wreq, builder, req, body, factory, spec, calc, op, arg, guess, res, prior, nrCalls>>

NextNR == NRIterate \/ NRExhaust

SpecNR == InitNR /\ [][NextNR]_vars

\* the loop is sequential code: a pass that can run does run
FairSpecNR == SpecNR /\ WF_vars(NextNR)

-----------------------------------------------------------------------------
(* cashflows of the three calculators, and the response built from a       *)
(* pricing result and a cashflow list (core/mappers.py).                   *)

Cashflow(date, amount, type) == [date |-> date, amount |-> amount, type |-> type]

Discounted_cashflows(sp) == <<Cashflow(sp.maturity, sp.face, "redemption")>>

IAM_cashflows(sp) ==
    LET coupon_anchor == IF sp.issue_date # NoDate THEN sp.issue_date
                         ELSE sp.settlement
        Y_coupon      == yf(coupon_anchor, sp.maturity, sp.day_count)
        interest      == QMul(QMul(sp.face, sp.coupon_rate), Y_coupon)
    IN  <<Cashflow(sp.maturity, interest, "interest"),
          Cashflow(sp.maturity, sp.face, "redemption")>>

\* sorted(flows, key=lambda c: c.date): entries of one date keep their order
\* variant: an entry is put before the entries of its own date
RECURSIVE InsertFlow_before_ties(_, _)
InsertFlow_before_ties(x, s) ==
    IF s = <<>> THEN <<x>>
    ELSE IF DateLe(x.date, s[1].date) THEN <<x>> \o s
    ELSE <<s[1]>> \o InsertFlow_before_ties(x, Tail(s))

RECURSIVE InsertFlow(_, _)
InsertFlow(x, s) ==
    IF s = <<>> THEN <<x>>
    ELSE IF DateLt(x.date, s[1].date) THEN <<x>> \o s
    ELSE <<s[1]>> \o InsertFlow(x, Tail(s))

RECURSIVE sorted_flows(_)
sorted_flows(s) ==
    IF s = <<>> THEN <<>>
    ELSE InsertFlow(s[Len(s)], sorted_flows(SubSeq(s, 1, Len(s) - 1)))

\* variant: the redemption is appended once, after the loop, only when the
\* schedule has more than one date
RECURSIVE regular_flows_no_single(_, _, _)
regular_flows_no_single(sp, schedule, i) ==
    IF i > Len(schedule) THEN <<>>
    ELSE <<Cashflow(schedule[i],
                    QDiv(QMul(sp.face, sp.coupon_rate), QInt(sp.frequency)),
                    "coupon")>>
         \o (IF i > 1 /\ schedule[i] = schedule[Len(schedule)]
             THEN <<Cashflow(schedule[i], sp.face, "redemption")>> ELSE <<>>)
         \o regular_flows_no_single(sp, schedule, i + 1)

\* the loop of RegularCouponCalculator.cashflows, from index i on
RECURSIVE regular_flows(_, _, _)
regular_flows(sp, schedule, i) ==
    IF i > Len(schedule) THEN <<>>
    ELSE <<Cashflow(schedule[i],
                    QDiv(QMul(sp.face, sp.coupon_rate), QInt(sp.frequency)),
                    "coupon")>>
         \o (IF schedule[i] = schedule[Len(schedule)]
             THEN <<Cashflow(schedule[i], sp.face, "redemption")>> ELSE <<>>)
         \o regular_flows(sp, schedule, i + 1)

\* the entries of flows dated after d
RECURSIVE flows_after(_, _)
flows_after(flows, d) ==
    IF flows = <<>> THEN <<>>
    ELSE (IF DateLt(d, flows[1].date) THEN <<flows[1]>> ELSE <<>>)
         \o flows_after(Tail(flows), d)

\* variant: only the entries still to be paid at settlement
Regular_cashflows_future(sp) ==
    flows_after(sorted_flows(regular_flows(sp, build(sp), 1)), sp.settlement)

Regular_cashflows(sp) == sorted_flows(regular_flows(sp, build(sp), 1))

cashflows(c, sp) ==
    CASE c = "DISCOUNTED"           -> Discounted_cashflows(sp)
      [] c = "INTEREST_AT_MATURITY" -> IAM_cashflows(sp)
      [] c = "REGULAR"              -> Regular_cashflows(sp)

\* round(x, 6): the nearest multiple of 1e-6, a tie to the even one
round6_parts(i, m, d) ==
    The({Q(i * 1000000 + m[1] + up, 1000000) :
         up \in {IF 2 * m[2] > d \/ (2 * m[2] = d /\ m[1] % 2 = 1)
                 THEN 1 ELSE 0}})

round6_abs(q) ==
    round6_parts(q[1] \div q[2], MulDivMod(q[1] % q[2], 1000000, q[2]), q[2])

round6(q) == IF q[1] < 0 THEN QNeg(round6_abs(QNeg(q))) ELSE round6_abs(q)

\* [cf for cf in cashflows if cf.type == "coupon"]
RECURSIVE coupons_of(_)
coupons_of(flows) ==
    IF flows = <<>> THEN <<>>
    ELSE (IF flows[1].type = "coupon" THEN <<flows[1]>> ELSE <<>>)
         \o coupons_of(Tail(flows))

\* lines 161-168
response_flows(flows) ==
    [i \in 1..Len(flows) |->
        [date |-> flows[i].date, amount |-> round6(flows[i].amount),
         type |-> flows[i].type]]

\* lines 170-172: the date of the first coupon entry, None without one
next_coupon_date(future_cfs) ==
    IF future_cfs # <<>> THEN future_cfs[1].date ELSE NoDate

\* None: the cashflows argument left at its default
NoFlows == <<>>

\* a key the response does not contain holds None; `keys` are the optional
\* keys it does contain
pricing_result_to_response(result, flows) ==
    [kind |-> "response",
     cleanPrice |-> round6(result.clean), dirtyPrice |-> round6(result.dirty),
     accruedInterest |-> round6(result.accrued), yield |-> round6(result.ytm),
     version |-> "2025.10",
     cashflows |-> response_flows(flows),
     nextCouponDate |-> next_coupon_date(coupons_of(flows)),
     keys |-> (IF flows # <<>> THEN {"cashflows"} ELSE {})
                \cup (IF coupons_of(flows) # <<>> THEN {"nextCouponDate"} ELSE {})]

-----------------------------------------------------------------------------
(* A calculator asked for its cashflows and for a price, and the response  *)
(* of the two.  The specs include override dates, an issue date before and *)
(* on settlement, a maturity within one coupon period and a maturity that  *)
(* is not after settlement.                                                *)

FlowSpecs ==
    {BondSpec(<<2025, 1, 15>>, mat, iss, fc, <<1, 20>>, fq, dc, fst, lst, bt) :
        mat \in {<<2025, 7, 31>>, <<2026, 2, 28>>, <<2025, 2, 10>>,
                 <<2025, 1, 15>>},
        iss \in {NoDate, <<2024, 6, 1>>, <<2025, 1, 15>>},
        fc  \in Faces, fq \in Frequencies, dc \in {"ACT_360", "_30E_360"},
        fst \in {NoDate, <<2024, 12, 31>>},
        lst \in {NoDate, <<2025, 7, 30>>, <<2026, 3, 31>>},
        bt  \in BondTypes}

\* the calculator is the one the factory gives for the spec's bond type
InitFlows ==
    /\ spec \in FlowSpecs
    /\ calc = spec.bond_type
    /\ Fresh
    /\ nr = NRIdle

Cashflows ==
    /\ op \in {"none", "price_from_yield"}
    /\ op' = "cashflows"
    /\ res' = [kind |-> "cashflows", flows |-> cashflows(calc, spec)]
    /\ prior' = res
    /\ UNCHANGED <<wreq, builder, req, body, factory, spec, calc, arg, guess, nrCalls, nr>>

\* pricing_result_to_response(result, cashflows) or, with the default
\* argument, pricing_result_to_response(result)
Respond ==
    /\ op = "cashflows"
    /\ prior.kind = "PricingResult"
    /\ op' = "pricing_result_to_response"
    /\ \E flows \in {NoFlows, res.flows} :
         res' = pricing_result_to_response(prior, flows)
    /\ prior' = res
    /\ UNCHANGED <<wreq, builder, req, body, factory, spec, calc, arg, guess, nrCalls, nr>>

NextFlows ==
    \/ PriceFromYield
    \/ Cashflows
    \/ Respond
    \/ AccruedInterest
    \/ Build

SpecFlows == InitFlows /\ [][NextFlows]_vars

-----------------------------------------------------------------------------
(* calculate_year_fraction called on its own: `arg` holds the arguments of *)
(* the call.  A convention outside the DayCount enum reaches the final     *)
(* raise.                                                                  *)

UnsupportedDayCount == "Unsupported day count convention"

\* values that are no member of DayCount: a raw string, None
NonDayCounts == {"ACT_ACT_ISDA", "None"}

\* calculate_year_fraction with its else branch
calculate_year_fraction_call(start, end, convention) ==
    IF convention \in DayCounts
    THEN Val(calculate_year_fraction(start, end, convention))
    ELSE Raise(UnsupportedDayCount)

YFWindow == 40

YFArgs ==
    {[start |-> s, end |-> e, convention |-> c] :
        s \in DaysFrom(<<2024, 1, 25>>, YFWindow),
        e \in {<<2024, 1, 31>>, <<2024, 2, 29>>, <<2024, 3, 31>>, <<2025, 1, 31>>},
        c \in DayCounts \cup NonDayCounts}
    \cup {[start |-> s, end |-> s, convention |-> c] :
        s \in DaysFrom(<<2024, 1, 25>>, YFWindow),
        c \in DayCounts \cup NonDayCounts}

InitYF ==
    /\ spec = NoSpec
    /\ calc = "none"
    /\ op = "none" /\ guess = Zero
    /\ res = NoResult /\ prior = NoResult /\ nrCalls = 0
    /\ nr = NRIdle
    /\ body = NoBody /\ factory = NoFactory /\ req = NoReq
    /\ builder = NoAttrs /\ wreq = NoWReq
    /\ arg \in YFArgs

YearFraction ==
    /\ op = "none"
    /\ op' = "calculate_year_fraction"
    /\ \E r \in {calculate_year_fraction_call(arg.start, arg.end, arg.convention)} :
         res' = IF r.ok THEN [kind |-> "float", value |-> r.v] ELSE Raised(r.e)
    /\ prior' = res
    /\ UNCHANGED <<wreq, builder, req, body, factory, spec, calc, arg, guess, nrCalls, nr>>

NextYF == YearFraction

SpecYF == InitYF /\ [][NextYF]_vars

-----------------------------------------------------------------------------
(* core/mappers.py: the request body to a BondSpec.  A body is a record    *)
(* of the values of its keys, with `keys` the optional keys it contains.   *)
(* A date string YYYY-MM-DD is held as the triple of its three fields.     *)

InvalidDate      == "Invalid date format"
UnknownDayCount  == "Unknown day count convention"
InvalidFrequency == "Invalid frequency"

\* date.fromisoformat accepts the fields of a calendar day
IsCalendarDay(t) == t[2] \in 1..12 /\ t[3] \in 1..DaysInMonth(t[1], t[2])

parse_date(date_str) ==
    IF IsCalendarDay(date_str) THEN Val(date_str) ELSE Raise(InvalidDate)

parse_day_count(dc_str) ==
    CASE dc_str = "ACT_360"      -> Val("ACT_360")
      [] dc_str = "ACT_365F"     -> Val("ACT_365F")
      [] dc_str = "ACT_ACT_ICMA" -> Val("ACT_ACT_ICMA")
      [] dc_str = "ACT_ACT_ISDA" -> Val("ACT_ACT_ICMA")
      [] dc_str = "30_360"       -> Val("US_30_360")
      [] dc_str = "30E_360"      -> Val("_30E_360")
      [] OTHER                   -> Raise(UnknownDayCount)

\* variant: an unknown frequency falls back to semi-annual
parse_frequency_defaulting(freq) ==
    IF freq \in {1, 2, 4, 12} THEN Val(freq) ELSE Val(2)

\* a Frequency member is held as its value
parse_frequency(freq) ==
    IF freq \in {1, 2, 4, 12} THEN Val(freq) ELSE Raise(InvalidFrequency)

\* str.upper() on the strings a body carries
upper(str) ==
    CASE str = "regular"    -> "REGULAR"
      [] str = "Discounted" -> "DISCOUNTED"
      [] str = "iam"        -> "IAM"
      [] str = "zero"       -> "ZERO"
      [] OTHER              -> str

\* None, the value of body.get("bondType") for a body without the key
NoneStr == "<None>"

parse_bond_type(type_str) ==
    IF type_str = NoneStr \/ type_str = "" \/ upper(type_str) = "REGULAR"
    THEN "REGULAR"
    ELSE IF upper(type_str) = "DISCOUNTED" THEN "DISCOUNTED"
    ELSE IF upper(type_str) \in {"IAM", "INTEREST_AT_MATURITY"}
    THEN "INTEREST_AT_MATURITY"
    ELSE "REGULAR"

\* parse_date(body[key]) if key in body else None
optional_date(b, key, date_str) ==
    IF key \in b.keys THEN parse_date(date_str) ELSE Val(NoDate)

\* lines 121-134: the BondSpec of the parsed values
spec_of(b, settlement, maturity, day_count, frequency, issue_date, first_coupon, last_coupon) ==
    [BondSpec(settlement, maturity, issue_date,
              IF "face" \in b.keys THEN b.face ELSE QInt(100),
              b.couponRate, frequency, day_count, first_coupon, last_coupon,
              parse_bond_type(IF "bondType" \in b.keys THEN b.bondType
                              ELSE NoneStr))
        EXCEPT !.eom_rule = IF "eomRule" \in b.keys THEN b.eomRule ELSE TRUE]

AnyRaise(outs) == \E i \in 1..Len(outs) : ~outs[i].ok

\* the first of the outcomes that raised, in the order of evaluation
FirstRaise(outs) ==
    outs[CHOOSE i \in 1..Len(outs) :
            ~outs[i].ok /\ \A j \in 1..(i - 1) : outs[j].ok]

parsed_to_spec(b, settlement, maturity, day_count, frequency, issue_date, first_coupon, last_coupon) ==
    IF AnyRaise(<<settlement, maturity, day_count, frequency, issue_date,
                  first_coupon, last_coupon>>)
    THEN FirstRaise(<<settlement, maturity, day_count, frequency, issue_date,
                      first_coupon, last_coupon>>)
    ELSE Val(spec_of(b, settlement.v, maturity.v, day_count.v, frequency.v,
                     issue_date.v, first_coupon.v, last_coupon.v))

request_to_bond_spec(b) ==
    parsed_to_spec(b, parse_date(b.settlementDate), parse_date(b.maturityDate),
                   parse_day_count(b.dayCount), parse_frequency(b.frequency),
                   optional_date(b, "issueDate", b.issueDate),
                   optional_date(b, "firstCouponDate", b.firstCouponDate),
                   optional_date(b, "lastCouponDate", b.lastCouponDate))

-----------------------------------------------------------------------------
(* factory.py (core/factory.py is the same class)                          *)

UnsupportedBondType == "Unsupported bond type"

DayCountFuncs == {"daycount_local.calculate_year_fraction",
                  "daycount_client.calculate_year_fraction"}

\* schedule_builder or ScheduleBuilder()
or_default(schedule_builder) ==
    IF schedule_builder = "None" THEN "ScheduleBuilder()" ELSE schedule_builder

\* CalculatorFactory.__init__
CalculatorFactory(daycount, schedule_builder) ==
    [kind |-> "CalculatorFactory", _dcf |-> daycount,
     _sched |-> or_default(schedule_builder)]

\* BondCalculator.__init__ of the class cls
Calculator(cls, daycount, schedule_builder) ==
    [class |-> cls, _yf |-> daycount, _sched |-> or_default(schedule_builder)]

\* variant: interest-at-maturity bonds are given the regular-coupon class
get_regular_for_iam(f, bond_type) ==
    IF bond_type = "DISCOUNTED"
    THEN Val(Calculator("DISCOUNTED", f._dcf, f._sched))
    ELSE IF bond_type \in {"INTEREST_AT_MATURITY", "REGULAR"}
    THEN Val(Calculator("REGULAR", f._dcf, f._sched))
    ELSE Raise(UnsupportedBondType)

\* CalculatorFactory.get; a calculator class is named by the tag of `calc`
get(f, bond_type) ==
    IF bond_type = "DISCOUNTED"
    THEN Val(Calculator("DISCOUNTED", f._dcf, f._sched))
    ELSE IF bond_type = "INTEREST_AT_MATURITY"
    THEN Val(Calculator("INTEREST_AT_MATURITY", f._dcf, f._sched))
    ELSE IF bond_type = "REGULAR"
    THEN Val(Calculator("REGULAR", f._dcf, f._sched))
    ELSE Raise(UnsupportedBondType)

-----------------------------------------------------------------------------
(* CalculatorFactory.get called repeatedly on one factory; `arg` holds the *)
(* bond type of the last call.                                             *)

\* the members of BondType and two values that are none
BondTypeArgs == BondTypes \cup {"None", "ZERO_COUPON"}

InitFactory ==
    /\ spec = NoSpec
    /\ calc = "none"
    /\ op = "factory" /\ arg = Zero /\ guess = Zero
    /\ res = NoResult /\ prior = NoResult /\ nrCalls = 0
    /\ nr = NRIdle
    /\ body = NoBody /\ req = NoReq /\ builder = NoAttrs /\ wreq = NoWReq
    /\ factory \in {CalculatorFactory(d, sb) :
                      d \in DayCountFuncs, sb \in {"None", "builder_1", "builder_2"}}

Get ==
    /\ op \in {"factory", "get"}
    /\ op' = "get"
    /\ \E bond_type \in BondTypeArgs :
         /\ arg' = bond_type
         /\ \E c \in {get(factory, bond_type)} :
              /\ res' = IF c.ok THEN [kind |-> "calculator", calculator |-> c.v]
                        ELSE Raised(c.e)
              /\ calc' = IF c.ok THEN c.v.class ELSE calc
    /\ prior' = res
    /\ UNCHANGED <<wreq, builder, req, body, factory, spec, guess, nrCalls, nr>>

NextFactory == Get

SpecFactory == InitFactory /\ [][NextFactory]_vars

-----------------------------------------------------------------------------
(* A request served end to end: the body is converted, the factory gives   *)
(* the calculator of the spec's bond type, and the calculator is called.   *)
(* `op` is "request" while the body waits for its conversion.              *)

Body(st, mat, dc, fq, iss, fst, lst, fc, bt, keys) ==
    [kind |-> "body", settlementDate |-> st, maturityDate |-> mat,
     dayCount |-> dc, frequency |-> fq, couponRate |-> <<1, 20>>,
     issueDate |-> iss, firstCouponDate |-> fst, lastCouponDate |-> lst,
     face |-> fc, bondType |-> bt, eomRule |-> FALSE,
     keys |-> keys \cup (IF iss # NoDate THEN {"issueDate"} ELSE {})
                   \cup (IF fst # NoDate THEN {"firstCouponDate"} ELSE {})
                   \cup (IF lst # NoDate THEN {"lastCouponDate"} ELSE {})]

DayCountStrs  == {"ACT_360", "ACT_ACT_ISDA", "30_360", "30E_360", "BUS_252"}
FrequencyInts == {2, 12, 0, 3}
BondTypeStrs  == {"", "regular", "DISCOUNTED", "iam", "INTEREST_AT_MATURITY",
                  "zero"}

\* a key that is absent has no value: the field then holds a fixed filler
AllReqBodies ==
    {Body(st, mat, dc, fq, iss, NoDate, NoDate, fc, bt, k) :
        st  \in {<<2025, 1, 15>>, <<2025, 2, 30>>},
        mat \in {<<2025, 7, 15>>, <<2024, 12, 31>>},
        dc  \in DayCountStrs, fq \in FrequencyInts,
        iss \in {NoDate, <<2024, 10, 15>>, <<2025, 3, 1>>},
        fc  \in Faces, bt \in BondTypeStrs,
        k   \in SUBSET {"face", "bondType", "eomRule"}}

ReqBodies ==
    {b \in AllReqBodies :
        /\ "face" \notin b.keys => b.face = Zero
        /\ "bondType" \notin b.keys => b.bondType = ""}

InitReq ==
    /\ spec = NoSpec
    /\ calc = "none"
    /\ op = "request" /\ arg = Zero /\ guess = Zero
    /\ res = NoResult /\ prior = NoResult /\ nrCalls = 0
    /\ nr = NRIdle
    /\ body \in ReqBodies /\ req = NoReq /\ builder = NoAttrs /\ wreq = NoWReq
    /\ factory = CalculatorFactory("daycount_local.calculate_year_fraction", "None")

RequestToBondSpec ==
    /\ op = "request"
    /\ op' = "request_to_bond_spec"
    /\ \E r \in {request_to_bond_spec(body)} :
         /\ spec' = IF r.ok THEN r.v ELSE spec
         /\ res' = IF r.ok THEN [kind |-> "BondSpec"] ELSE Raised(r.e)
    /\ prior' = res
    /\ UNCHANGED <<wreq, builder, req, body, factory, calc, arg, guess, nrCalls, nr>>

\* factory.get(spec.bond_type): a calculator on which no call was made yet
NewCalculator ==
    /\ op = "request_to_bond_spec"
    /\ res.kind = "BondSpec"
    /\ \E c \in {get(factory, spec.bond_type)} :
         IF c.ok
         THEN calc' = c.v.class /\ op' = "none" /\ res' = NoResult
         ELSE calc' = calc /\ op' = "get" /\ res' = Raised(c.e)
    /\ prior' = res
    /\ UNCHANGED <<wreq, builder, req, body, factory, spec, arg, guess, nrCalls, nr>>

NextReq ==
    \/ RequestToBondSpec
    \/ NewCalculator
    \/ PriceFromYield
    \/ AccruedInterest
    \/ Build

SpecReq == InitReq /\ [][NextReq]_vars

-----------------------------------------------------------------------------
(* yield_from_price of the two calculators that call newton_raphson, on    *)
(* specs whose solve fails (a zero face value), starts at the root, or is  *)
(* not reached because accrued_interest raises (a last coupon date the day *)
(* before a month-end maturity, under a 30/360 convention).                *)

SolveSpecs ==
    {BondSpec(st, mat, iss, fc, cr, fq, dc, NoDate, lst, bt) :
        st  \in {<<2025, 1, 15>>, <<2025, 7, 30>>},
        mat \in {<<2025, 7, 31>>, <<2026, 2, 28>>},
        iss \in {NoDate, <<2024, 6, 1>>},
        fc  \in Faces, cr \in CouponRates, fq \in Frequencies,
        dc  \in {"ACT_360", "_30E_360", "US_30_360"},
        lst \in {NoDate, <<2025, 7, 30>>},
        bt  \in {"INTEREST_AT_MATURITY", "REGULAR"}}

InitSolve ==
    /\ spec \in SolveSpecs
    /\ calc = spec.bond_type
    /\ Fresh
    /\ nr = NRIdle

NextSolve == PriceFromYield \/ YieldFromPrice \/ RoundTrip

SpecSolve == InitSolve /\ [][NextSolve]_vars

-----------------------------------------------------------------------------
(* A request executed statement by statement against the day-count         *)
(* function the calculator was constructed with (self._yf).  Calling the   *)
(* plain function of daycount_local runs it to completion before the       *)
(* caller continues.  Calling the `async def` function that                *)
(* create_daycount_function returns gives a coroutine object: its body     *)
(* runs only when it is awaited, and no statement of a calculator awaits.  *)
(* Arithmetic on a coroutine object raises TypeError.                      *)

TypeError == "TypeError"

\* the closure returned by create_daycount_function(request)
daycount_func == "daycount_client.create_daycount_function.daycount_func"

\* inspect.iscoroutinefunction
is_async(dcf) == dcf \in {daycount_func, "daycount_client.calculate_year_fraction"}

\* the statements of a request that involve the day-count function: a call
\* self._yf(start, end, spec.day_count), and arithmetic on the results of
\* the calls numbered `uses`
yf_call(start, end) == [kind |-> "call", start |-> start, end |-> end, uses |-> {}]

yf_use(ks) == [kind |-> "use", start |-> NoDate, end |-> NoDate, uses |-> ks]

calls_in(steps) == Cardinality({i \in 1..Len(steps) : steps[i].kind = "call"})

\* BondCalculator.accrued_interest, after n earlier calls of the request
accrued_steps(sp, n) ==
    IF sp.bond_type = "REGULAR" THEN
        LET schedule == SeqSet(build(sp))
            before   == {d \in schedule : DateLe(d, sp.settlement)}
            after    == {d \in schedule : DateLt(sp.settlement, d)}
        IN  IF before = {} \/ after = {} THEN <<>>
            ELSE <<yf_call(MaxDate(before), MinDate(after)),
                   yf_call(MaxDate(before), sp.settlement),
                   yf_use({n + 1, n + 2})>>
    ELSE IF sp.bond_type = "INTEREST_AT_MATURITY" THEN
        <<yf_call(IF sp.issue_date # NoDate THEN sp.issue_date ELSE sp.settlement,
                  sp.settlement),
          yf_use({n + 1})>>
    ELSE <<>>

\* DiscountedCalculator.price_from_yield
Discounted_steps(sp) == <<yf_call(sp.settlement, sp.maturity), yf_use({1})>>

\* InterestAtMaturityCalculator.price_from_yield
IAM_steps(sp) ==
    <<yf_call(IF sp.issue_date # NoDate THEN sp.issue_date ELSE sp.settlement,
              sp.maturity),
      yf_use({1}),
      yf_call(sp.settlement, sp.maturity),
      yf_use({2})>> \o accrued_steps(sp, 2)

\* the loop of RegularCouponCalculator.price_from_yield from index i on,
\* after n earlier calls
RECURSIVE loop_steps(_, _, _, _)
loop_steps(sp, schedule, i, n) ==
    IF i > Len(schedule) THEN <<>>
    ELSE IF DateLe(schedule[i], sp.settlement)
    THEN loop_steps(sp, schedule, i + 1, n)
    ELSE <<yf_call(sp.settlement, schedule[i]), yf_use({n + 1})>>
         \o loop_steps(sp, schedule, i + 1, n + 1)

\* RegularCouponCalculator.price_from_yield: the accrued interest first, and
\* the loop unless accrued_interest raised
Regular_steps(sp) ==
    accrued_steps(sp, 0)
      \o (IF accrued_interest(sp).ok
          THEN loop_steps(sp, build(sp), 1, calls_in(accrued_steps(sp, 0)))
          ELSE <<>>)

steps_of(c, o, sp) ==
    CASE o = "accrued_interest"     -> accrued_steps(sp, 0)
      [] c = "DISCOUNTED"           -> Discounted_steps(sp)
      [] c = "INTEREST_AT_MATURITY" -> IAM_steps(sp)
      [] c = "REGULAR"              -> Regular_steps(sp)

\* a request in progress; no day-count call has been made
Request(c, o, sp, ytm) ==
    [kind |-> "request", op |-> o, ytm |-> ytm, steps |-> steps_of(c, o, sp),
     calls |-> <<>>, used |-> {}, status |-> "running"]

\* the calls that were started and have not returned
Running(r) == {k \in 1..Len(r.calls) : r.calls[k].status = "running"}

AwaitSpecs ==
    {BondSpec(<<2025, 1, 15>>, mat, iss, One, <<1, 20>>, fq, dc, NoDate, NoDate, bt) :
        mat \in {<<2025, 7, 15>>, <<2026, 1, 31>>},
        iss \in {NoDate, <<2024, 10, 15>>},
        fq  \in {2, 4}, dc \in {"ACT_360", "_30E_360"}, bt \in BondTypes}

\* the factory is constructed with one of the two day-count functions and
\* gives the calculator of the spec's bond type
InitAwait ==
    /\ spec \in AwaitSpecs
    /\ calc = spec.bond_type
    /\ op = "none" /\ arg = Zero /\ guess = Zero
    /\ res = NoResult /\ prior = NoResult /\ nrCalls = 0
    /\ nr = NRIdle
    /\ body = NoBody /\ req = NoReq /\ builder = NoAttrs /\ wreq = NoWReq
    /\ factory \in {CalculatorFactory(d, "None") :
                      d \in {"daycount_local.calculate_year_fraction",
                             daycount_func}}

StartRequest ==
    /\ req = NoReq /\ op = "none"
    /\ \E o \in {"price_from_yield", "accrued_interest"} :
         \E y \in (IF o = "price_from_yield" THEN {Zero, <<1, 20>>} ELSE {Zero}) :
            req' = Request(calc, o, spec, y)
    /\ UNCHANGED <<spec, calc, op, arg, guess, res, prior, nrCalls, nr, body, factory, builder, wreq>>

\* self._yf(start, end, spec.day_count): the plain function is entered; the
\* async function hands back a coroutine object at once
DayCountCall ==
    /\ req # NoReq /\ req.status = "running" /\ Running(req) = {}
    /\ req.steps # <<>> /\ req.steps[1].kind = "call"
    /\ req' = [req EXCEPT
                 !.steps = Tail(@),
                 !.calls = Append(@, [start |-> req.steps[1].start,
                                      end |-> req.steps[1].end,
                                      status |-> IF is_async(factory._dcf)
                                                 THEN "coroutine" ELSE "running",
                                      value |-> NoValue])]
    /\ UNCHANGED <<spec, calc, op, arg, guess, res, prior, nrCalls, nr, body, factory, builder, wreq>>

\* the plain function returns the year fraction to its caller
DayCountReturn ==
    /\ req # NoReq
    /\ \E k \in Running(req) :
         req' = [req EXCEPT
                   !.calls[k].status = "done",
                   !.calls[k].value = yf(req.calls[k].start, req.calls[k].end,
                                         spec.day_count)]
    /\ UNCHANGED <<spec, calc, op, arg, guess, res, prior, nrCalls, nr, body, factory, builder, wreq>>

\* arithmetic on what the calls gave: on floats it goes on, on a coroutine
\* object it raises TypeError, which ends the request
UseValue ==
    /\ req # NoReq /\ req.status = "running" /\ Running(req) = {}
    /\ req.steps # <<>> /\ req.steps[1].kind = "use"
    /\ IF \A k \in req.steps[1].uses : req.calls[k].status = "done"
       THEN /\ req' = [req EXCEPT !.steps = Tail(@),
                                  !.used = @ \cup req.steps[1].uses]
            /\ UNCHANGED <<op, arg, res, prior>>
       ELSE /\ req' = [req EXCEPT !.status = "raised",
                                  !.used = @ \cup req.steps[1].uses]
            /\ op' = req.op
            /\ arg' = req.ytm
            /\ res' = Raised(TypeError)
            /\ prior' = res
    /\ UNCHANGED <<spec, calc, guess, nrCalls, nr, body, factory, builder, wreq>>

\* the return statement of the request, or the exception of its arithmetic
Return ==
    /\ req # NoReq /\ req.status = "running" /\ Running(req) = {}
    /\ req.steps = <<>>
    /\ req' = [req EXCEPT !.status = "returned"]
    /\ op' = req.op
    /\ arg' = req.ytm
    /\ res' = IF req.op = "price_from_yield"
              THEN price_from_yield(calc, spec, req.ytm)
              ELSE The({IF a.ok THEN [kind |-> "float", value |-> a.v]
                        ELSE Raised(a.e) : a \in {accrued_interest(spec)}})
    /\ prior' = res
    /\ UNCHANGED <<spec, calc, guess, nrCalls, nr, body, factory, builder, wreq>>

NextAwait ==
    \/ StartRequest
    \/ DayCountCall
    \/ DayCountReturn
    \/ UseValue
    \/ Return

SpecAwait == InitAwait /\ [][NextAwait]_vars

-----------------------------------------------------------------------------
(* Requests served one after another, in any order, by one factory, the    *)
(* calculators it gives and the builder they share.  A request takes a     *)
(* BondSpec and a calculator from the factory and makes one call; `res`    *)
(* still holds the outcome of the request before.                          *)

SharedSpecs ==
    {BondSpec(<<2025, 1, 15>>, <<2026, 1, 31>>, iss, fc, <<1, 20>>, 4, "ACT_360", NoDate, NoDate, bt) :
        iss \in {NoDate, <<2024, 10, 15>>},
        fc  \in Faces, bt \in BondTypes}

InitShared ==
    /\ factory = CalculatorFactory("daycount_local.calculate_year_fraction", "None")
    /\ spec \in SharedSpecs
    /\ calc = get(factory, spec.bond_type).v.class
    /\ op = "none" /\ arg = Zero /\ guess = Zero
    /\ res = NoResult /\ prior = NoResult /\ nrCalls = 0
    /\ nr = NRIdle
    /\ body = NoBody /\ req = NoReq /\ builder = NoAttrs /\ wreq = NoWReq

\* the call of a request has ended; the next request brings its BondSpec
\* and asks the factory for a calculator
NextRequest ==
    /\ op \notin {"none", "get"}
    /\ spec' \in SharedSpecs
    /\ \E bond_type \in BondTypes :
         calc' = get(factory, bond_type).v.class
    /\ op' = "none" /\ arg' = Zero /\ guess' = Zero /\ nrCalls' = 0
    /\ prior' = NoResult
    /\ UNCHANGED <<wreq, builder, req, body, factory, res, nr>>

NextShared ==
    \/ NextRequest
    \/ PriceFromYield
    \/ YieldFromPrice
    \/ Cashflows
    \/ AccruedInterest
    \/ Build

SpecShared == InitShared /\ [][NextShared]_vars

-----------------------------------------------------------------------------
(* The Request wrapper of workers-py (src/libs/workers-py request.py).     *)
(* A body text is parsed by json.loads into a value of one of the JSON     *)
(* types or is rejected; the values are kept with their Python type.       *)

ValueError      == "ValueError"
JSONDecodeError == "json.JSONDecodeError"

PyNone == [type |-> "NoneType", text |-> "null"]

\* texts a request body may hold: objects, arrays, the scalar values, and
\* texts that are not JSON
JsonTexts ==
    {"{}", "{\"face\": 100}", "{\"bondType\": \"REGULAR\", \"face\": 100}",
     "[]", "[1, 2]", "[{\"face\": 100}]",
     "null", "0", "\"REGULAR\"", "true",
     "", "{", "{'face': 100}"}

\* json.loads(body_text): the value of the text, with its Python type
json_loads(body_text) ==
    CASE body_text \in {"{}", "{\"face\": 100}",
                        "{\"bondType\": \"REGULAR\", \"face\": 100}"}
           -> Val([type |-> "dict", text |-> body_text])
      [] body_text \in {"[]", "[1, 2]", "[{\"face\": 100}]"}
           -> Val([type |-> "list", text |-> body_text])
      [] body_text = "null" -> Val(PyNone)
      [] body_text = "0" -> Val([type |-> "int", text |-> body_text])
      [] body_text = "\"REGULAR\"" -> Val([type |-> "str", text |-> body_text])
      [] body_text = "true" -> Val([type |-> "bool", text |-> body_text])
      [] OTHER -> Raise(JSONDecodeError)

isinstance(v, t) == v.type = t

\* Request.__init__ (lines 10-17)
Request_init(raw_request) ==
    [_request |-> raw_request, _parsed_json |-> PyNone]

\* Request.json (lines 48-69): the value returned or the error raised, the
\* attributes after the call, and the number of reads of the raw body
Request_json(self) ==
    IF self._parsed_json # PyNone
    THEN \* lines 57-58
         [ret |-> Val(self._parsed_json), self |-> self, read |-> 0]
    ELSE \* line 61 reads the body, line 62 parses it
         LET parsed == json_loads(self._request)
         IN  IF ~parsed.ok
             THEN \* lines 68-69: nothing was assigned
                  [ret |-> Raise(ValueError), self |-> self, read |-> 1]
             ELSE IF ~isinstance(parsed.v, "dict")
             THEN \* lines 62 and 64-65: the value is assigned, then refused
                  [ret |-> Raise(ValueError),
                   self |-> [self EXCEPT !._parsed_json = parsed.v],
                   read |-> 1]
             ELSE \* lines 62 and 67
                  [ret |-> Val(parsed.v),
                   self |-> [self EXCEPT !._parsed_json = parsed.v],
                   read |-> 1]

\* Request.text (lines 71-73)
Request_text(self) ==
    [ret |-> Val([type |-> "str", text |-> self._request]),
     self |-> self, read |-> 1]

\* calls made on one Request
MaxRequestCalls == 4

InitJson ==
    /\ spec = NoSpec
    /\ calc = "none"
    /\ op = "none" /\ arg = Zero /\ guess = Zero
    /\ res = NoResult /\ prior = NoResult /\ nrCalls = 0
    /\ nr = NRIdle
    /\ body = NoBody /\ factory = NoFactory /\ req = NoReq /\ builder = NoAttrs
    /\ wreq \in {[kind |-> "Request", self |-> Request_init(t),
                   text_calls |-> 0, log |-> <<>>] : t \in JsonTexts}

\* a call of a method of the Request, entered in the log with the number of
\* body reads made up to its end
Called(name, r) ==
    /\ wreq' = [wreq EXCEPT
                  !.self = r.self,
                  !.text_calls = @ + r.read,
                  !.log = Append(@, [call |-> name, out |-> r.ret,
                                     reads |-> wreq.text_calls + r.read])]
    /\ op' = name
    /\ prior' = res
    /\ res' = IF r.ret.ok THEN [kind |-> "value", value |-> r.ret.v]
                          ELSE Raised(r.ret.e)

Json ==
    /\ Len(wreq.log) < MaxRequestCalls
    /\ Called("json", Request_json(wreq.self))
    /\ UNCHANGED <<spec, calc, arg, guess, nrCalls, nr, body, factory, req, builder>>

Text ==
    /\ Len(wreq.log) < MaxRequestCalls
    /\ Called("text", Request_text(wreq.self))
    /\ UNCHANGED <<spec, calc, arg, guess, nrCalls, nr, body, factory, req, builder>>

NextJson ==
    \/ Json
    \/ Text

SpecJson == InitJson /\ [][NextJson]_vars

-----------------------------------------------------------------------------
(* The fields of a BondSpec that no calculator reads: specs that carry     *)
(* every value of eom_rule and of stub_position, with a month-end maturity *)
(* whose walked dates are clamped.                                         *)

\* types.py StubPosition
StubPositions == {"NONE", "SHORT_FIRST", "LONG_FIRST", "SHORT_LAST", "LONG_LAST"}

FieldSpecs ==
    {[sp EXCEPT !.eom_rule = e, !.stub_position = p] :
        sp \in {BondSpec(<<2025, 1, 15>>, <<2026, 1, 31>>, iss, fc, <<1, 20>>,
                         fq, dc, NoDate, NoDate, bt) :
                   iss \in {NoDate, <<2024, 10, 15>>}, fc \in Faces,
                   fq \in {2, 4}, dc \in {"ACT_360", "_30E_360"},
                   bt \in BondTypes},
        e \in BOOLEAN, p \in StubPositions}

InitFields ==
    /\ spec \in FieldSpecs
    /\ calc \in BondTypes
    /\ Fresh
    /\ nr = NRIdle

NextFields ==
    \/ PriceFromYield
    \/ YieldFromPrice
    \/ Cashflows
    \/ AccruedInterest
    \/ Build

SpecFields == InitFields /\ [][NextFields]_vars

-----------------------------------------------------------------------------
(* Properties.                                                             *)

IsPricing == op \in {"price_from_yield", "yield_from_price"}
                /\ res.kind = "PricingResult"

\* C1: every PricingResult returned by price_from_yield or yield_from_price,
\* of any of the three calculators, has dirty = clean + accrued.
C1_DirtyIsCleanPlusAccrued ==
    IsPricing => res.dirty = QAdd(res.clean, res.accrued)

\* an interest-at-maturity inversion that returned, with interest accrued
C1_Witness ==
    /\ IsPricing /\ op = "yield_from_price"
    /\ calc = "INTEREST_AT_MATURITY"
    /\ res.accrued # Zero

StrictlyIncreasing(dates) ==
    \A i \in 1..(Len(dates) - 1) : DateLt(dates[i], dates[i + 1])

\* C2: for every BondSpec, first_coupon / last_coupon overrides included,
\* build returns dates that strictly increase and end on spec.maturity.
C2_ScheduleContract ==
    op = "build" =>
        /\ StrictlyIncreasing(res.dates)
        /\ Len(res.dates) > 0
        /\ res.dates[Len(res.dates)] = spec.maturity

RoundTripTol == <<1, 10000, 10000>>

\* C3: price_from_yield(spec, ytm) followed by yield_from_price on the clean
\* price it returned, with the default guess 0.05, returns a result whose
\* ytm is within 1e-8 of the original ytm; the call does not fail.
C3_RoundTrip ==
    (/\ op = "yield_from_price" /\ guess = DefaultGuess
     /\ prior.kind = "PricingResult" /\ arg = prior.clean)
        => /\ res.kind = "PricingResult"
           /\ AbsLtTol(QSub(res.ytm, prior.ytm), RoundTripTol)

\* C4: Discounted yield_from_price makes no newton_raphson call, returns
\* ytm = (face/clean_price - 1)/Y with Y = year_fraction(settlement,
\* maturity), and the clean and dirty price of the result both equal the
\* input clean_price.
C4_DiscountedClosedForm ==
    (op = "yield_from_price" /\ calc = "DISCOUNTED") =>
        /\ nrCalls = 0
        /\ res.kind = "PricingResult" =>
             /\ res.ytm = QDiv(QSub(QDiv(spec.face, arg), One),
                               yf(spec.settlement, spec.maturity,
                                  spec.day_count))
             /\ res.clean = arg
             /\ res.dirty = arg

\* a discounted inversion of a non-zero price returned a non-zero yield
C4_Witness ==
    /\ op = "yield_from_price" /\ calc = "DISCOUNTED"
    /\ res.kind = "PricingResult"
    /\ arg # Zero /\ res.ytm # Zero

-----------------------------------------------------------------------------
(* newton_raphson                                                          *)

StepOf(e) == QDiv(e.fx, e.dfx)

\* no pass so far had a zero derivative or a step below the tolerance
NoStepMeets(fr) ==
    \A k \in 1..Len(fr.trace) :
        /\ fr.trace[k].dfx # Zero
        /\ ~AbsLtTol(StepOf(fr.trace[k]), fr.tol)

\* C5: newton_raphson fails with the zero-derivative error whenever
\* df(x) = 0 at the iterate of a pass, whatever f(x) is there; it fails with
\* the did-not-converge error exactly when max_iter passes were made and no
\* step satisfied |step| < tol; in neither case is a value returned.
C5_NRErrors ==
    nr.status # "idle" =>
        /\ \A k \in 1..Len(nr.trace) :
             nr.trace[k].dfx = Zero =>
                /\ k = Len(nr.trace)
                /\ nr.status = "raised" /\ nr.error = ZeroDerivative
        /\ (nr.status = "raised" /\ nr.error = DidNotConverge)
             <=> (/\ nr.status # "running"
                  /\ Len(nr.trace) = nr.max_iter
                  /\ NoStepMeets(nr))
        /\ nr.status = "raised" => nr.value = NoValue

\* the second pass found f(x) = 0 and df(x) = 0 and raised
C5_Witness ==
    /\ nr.status = "raised" /\ nr.error = ZeroDerivative
    /\ Len(nr.trace) = 2
    /\ nr.trace[2].fx = Zero /\ nr.trace[2].dfx = Zero

\* C6: newton_raphson always terminates; it evaluates f and df at most
\* max_iter times each and then returns or raises; with max_iter = 0 it
\* raises the did-not-converge error without evaluating f.
C6_NRTerminates ==
    /\ [](nr.status # "idle" =>
            /\ nr.fEvals <= nr.max_iter
            /\ nr.dfEvals <= nr.max_iter
            /\ (nr.status # "running" /\ nr.max_iter = 0) =>
                  /\ nr.status = "raised" /\ nr.error = DidNotConverge
                  /\ nr.fEvals = 0)
    /\ <>(nr.status \in {"returned", "raised"})

\* every pass was used, f and df evaluated max_iter times, then the raise
C6_Witness ==
    /\ nr.status = "raised" /\ nr.error = DidNotConverge
    /\ nr.max_iter = MaxIterBound
    /\ nr.fEvals = nr.max_iter /\ nr.dfEvals = nr.max_iter

-----------------------------------------------------------------------------
(* Accrued interest                                                        *)

\* C7: for every spec passed to a DiscountedCalculator, whatever its
\* bond_type, accrued_interest returns 0, and every PricingResult the
\* calculator returns has accrued = 0 and clean = dirty.
C7_DiscountedNoAccrual ==
    calc = "DISCOUNTED" =>
        /\ op = "accrued_interest" => res = [kind |-> "float", value |-> Zero]
        /\ IsPricing => res.accrued = Zero /\ res.clean = res.dirty

\* prev and next of a spec, as sets: empty when there is no such date
PrevOf(sp) ==
    {d \in SeqSet(build(sp)) :
        /\ DateLe(d, sp.settlement)
        /\ \A e \in SeqSet(build(sp)) : DateLe(e, sp.settlement) => DateLe(e, d)}

NextOf(sp) ==
    {d \in SeqSet(build(sp)) :
        /\ DateLt(sp.settlement, d)
        /\ \A e \in SeqSet(build(sp)) : DateLt(sp.settlement, e) => DateLe(d, e)}

Bracketed(sp) == PrevOf(sp) # {} /\ NextOf(sp) # {}

\* (face*coupon_rate/frequency) * yf(prev, settlement) / yf(prev, next)
AccruedFormula(sp, prev, nxt) ==
    QDiv(QMul(QDiv(QMul(sp.face, sp.coupon_rate), QInt(sp.frequency)),
              yf(prev, sp.settlement, sp.day_count)),
         yf(prev, nxt, sp.day_count))

IsRegularAccrual == op = "accrued_interest" /\ spec.bond_type = "REGULAR"

\* C8 as stated: accrued_interest of a regular-coupon spec returns
\* (face*coupon_rate/frequency) * yf(prev, settlement) / yf(prev, next) for
\* prev the latest schedule date <= settlement and next the earliest one
\* > settlement, and returns 0 exactly when there is no such prev or next.
C8_AccruedExactlyWhen ==
    IsRegularAccrual =>
        /\ Bracketed(spec) =>
             \A p \in PrevOf(spec), n \in NextOf(spec) :
                /\ yf(p, n, spec.day_count) # Zero
                /\ res = [kind |-> "float", value |-> AccruedFormula(spec, p, n)]
        /\ (res = [kind |-> "float", value |-> Zero]) <=> ~Bracketed(spec)

\* C8 amended: the formula is what is returned whenever yf(prev, next) is
\* not 0, a zero yf(prev, next) raises ZeroDivisionError, and 0 is returned
\* whenever there is no such prev or no such next (and also whenever the
\* formula itself is 0).
C8_AccruedFormula ==
    IsRegularAccrual =>
        /\ Bracketed(spec) =>
             \A p \in PrevOf(spec), n \in NextOf(spec) :
                IF yf(p, n, spec.day_count) = Zero
                THEN res = Raised(ZeroDivisionError)
                ELSE res = [kind |-> "float", value |-> AccruedFormula(spec, p, n)]
        /\ ~Bracketed(spec) => res = [kind |-> "float", value |-> Zero]

\* settlement strictly inside a period that starts on an override date
C8_Witness ==
    /\ IsRegularAccrual /\ Bracketed(spec)
    /\ res.kind = "float" /\ res.value # Zero
    /\ spec.first_coupon \in PrevOf(spec)

\* C9: with issue date, maturity, coupon and frequency fixed,
\* accrued_interest does not decrease from one settlement day to the next
\* within a coupon period, and is exactly 0 when settlement is a schedule
\* date, under each of the five day-count conventions.
C9_AccruedMonotone ==
    IsRegularAccrual =>
        LET sched    == SeqSet(build(spec))
            next_day == NextDay(spec.settlement)
            later    == accrued_interest([spec EXCEPT !.settlement = next_day])
        IN  /\ res.kind = "float"
            /\ spec.settlement \in sched => res.value = Zero
            /\ next_day \notin sched => later.ok /\ QLe(res.value, later.v)

\* interest has accrued, and more of it one day later in the same period
C9_Witness ==
    /\ IsRegularAccrual /\ res.kind = "float"
    /\ QLt(Zero, res.value)
    /\ NextDay(spec.settlement) \notin SeqSet(build(spec))
    /\ LET later == accrued_interest(
                        [spec EXCEPT !.settlement = NextDay(spec.settlement)])
       IN  later.ok /\ QLt(res.value, later.v)

\* C10: for every regular-coupon spec, whatever its issue date, overrides,
\* day count and settlement, accrued_interest returns a number, and 0 when
\* settlement is outside every period of the schedule; no division by a
\* zero period year fraction occurs.
C10_AccruedNeverRaises ==
    IsRegularAccrual =>
        /\ res.kind = "float"
        /\ ~Bracketed(spec) => res.value = Zero

-----------------------------------------------------------------------------
(* Day count                                                               *)

\* C11: for every date d and each of the five conventions,
\* calculate_year_fraction(d, d, convention) is exactly 0.
C11_SameDateIsZero ==
    (/\ op = "calculate_year_fraction"
     /\ arg.start = arg.end /\ arg.convention \in DayCounts)
        => res = [kind |-> "float", value |-> Zero]

\* the 31st of a month against itself under 30/360 US, where both day
\* adjustments apply
C11_Witness ==
    /\ op = "calculate_year_fraction"
    /\ arg.start = arg.end /\ arg.start[3] = 31
    /\ arg.convention = "US_30_360"
    /\ res = [kind |-> "float", value |-> Zero]

-----------------------------------------------------------------------------
(* Request conversion                                                      *)

KnownDayCountStrs ==
    {"ACT_360", "ACT_365F", "ACT_ACT_ICMA", "ACT_ACT_ISDA", "30_360", "30E_360"}

KnownBondTypeStrs ==
    {"regular", "REGULAR", "Discounted", "DISCOUNTED", "iam", "IAM",
     "INTEREST_AT_MATURITY"}

Converted == body # NoBody /\ op # "request"

\* an unknown day-count string or frequency ended in an error, no spec, no
\* calculator and no computed result; calculate_year_fraction raises for a
\* convention outside the five
UnknownIsAnError ==
    /\ \A c \in NonDayCounts :
         ~calculate_year_fraction_call(<<2025, 1, 15>>, <<2025, 7, 15>>, c).ok
    /\ Converted =>
         /\ (body.dayCount \notin KnownDayCountStrs
               \/ body.frequency \notin Frequencies)
              => /\ op = "request_to_bond_spec" /\ res.kind = "raise"
                 /\ spec = NoSpec /\ calc = "none"
         /\ spec # NoSpec =>
              /\ spec.frequency = body.frequency
              /\ spec.day_count \in DayCounts

\* an absent or unrecognised bondType maps to REGULAR
BondTypeFallback ==
    (Converted /\ spec # NoSpec
       /\ ("bondType" \notin body.keys \/ body.bondType \notin KnownBondTypeStrs))
        => spec.bond_type = "REGULAR"

\* C12 as stated: an unknown day-count string or a frequency outside
\* {1,2,4,12} always ends in an error and never in a computed result, and
\* the only silently defaulted input is bondType (absent or unrecognised maps
\* to REGULAR): every other input of a spec is the one the body supplied.
C12_NoSilentDefault ==
    /\ UnknownIsAnError
    /\ BondTypeFallback
    /\ (Converted /\ spec # NoSpec) =>
         /\ "face" \in body.keys /\ spec.face = body.face
         /\ "eomRule" \in body.keys /\ spec.eom_rule = body.eomRule

\* C12 amended: as above for the day count, the frequency and bondType; the
\* absent face and the absent eomRule are defaulted as well, to 100.0 and
\* True.
C12_DefaultsAreBondTypeFaceEom ==
    /\ UnknownIsAnError
    /\ BondTypeFallback
    /\ (Converted /\ spec # NoSpec) =>
         /\ spec.face = (IF "face" \in body.keys THEN body.face ELSE QInt(100))
         /\ spec.eom_rule = (IF "eomRule" \in body.keys THEN body.eomRule
                             ELSE TRUE)

\* a schedule was computed for a body with an unrecognised bondType and no
\* face
C12_Witness ==
    /\ Converted /\ op = "build"
    /\ "bondType" \in body.keys /\ body.bondType = "zero"
    /\ "face" \notin body.keys
    /\ spec.bond_type = "REGULAR" /\ calc = "REGULAR"

-----------------------------------------------------------------------------
(* Factory                                                                 *)

\* a calculator of class cls built with the factory's day-count function
\* and schedule builder
FromFactory(cls) ==
    [kind |-> "calculator",
     calculator |-> [class |-> cls, _yf |-> factory._dcf,
                     _sched |-> factory._sched]]

\* C13: CalculatorFactory.get maps DISCOUNTED, INTEREST_AT_MATURITY and
\* REGULAR to a DiscountedCalculator, InterestAtMaturityCalculator and
\* RegularCouponCalculator, each built with the factory's day-count function
\* and schedule builder, and fails with the unsupported-type error for any
\* other bond type; no call changes the state of the factory.
C13_FactoryGet ==
    /\ [](op = "get" =>
            /\ arg = "DISCOUNTED" => res = FromFactory("DISCOUNTED")
            /\ arg = "INTEREST_AT_MATURITY"
                 => res = FromFactory("INTEREST_AT_MATURITY")
            /\ arg = "REGULAR" => res = FromFactory("REGULAR")
            /\ arg \notin BondTypes => res = Raised(UnsupportedBondType))
    /\ [][factory' = factory]_vars

\* an interest-at-maturity calculator handed out right after a failed call,
\* by a factory constructed without a schedule builder
C13_Witness ==
    /\ op = "get" /\ arg = "INTEREST_AT_MATURITY"
    /\ prior = Raised(UnsupportedBondType)
    /\ res.kind = "calculator"
    /\ res.calculator._sched = "ScheduleBuilder()"

-----------------------------------------------------------------------------
(* Cashflows                                                               *)

\* indices of the entries of a kind, and of a kind on a date
EntriesOf(flows, type) == {i \in 1..Len(flows) : flows[i].type = type}

EntriesOn(flows, type, d) ==
    {i \in EntriesOf(flows, type) : flows[i].date = d}

\* C14: for every variant and every spec, cashflows(spec) is sorted
\* ascending by date; for RegularCoupon it has exactly one coupon entry per
\* schedule date and exactly one redemption entry, of amount face, on the
\* final schedule date, where the coupon comes before the redemption.
C14_CashflowsSorted ==
    op = "cashflows" =>
        /\ \A i \in 1..(Len(res.flows) - 1) :
             DateLe(res.flows[i].date, res.flows[i + 1].date)
        /\ calc = "REGULAR" =>
             /\ \A d \in SeqSet(build(spec)) :
                  Cardinality(EntriesOn(res.flows, "coupon", d)) = 1
             /\ Cardinality(EntriesOf(res.flows, "coupon")) = Len(build(spec))
             /\ \A i \in 1..Len(res.flows) :
                  res.flows[i].type \in {"coupon", "redemption"}
             /\ Cardinality(EntriesOf(res.flows, "redemption")) = 1
             /\ \A r \in EntriesOf(res.flows, "redemption") :
                  /\ res.flows[r].amount = spec.face
                  /\ res.flows[r].date = build(spec)[Len(build(spec))]
                  /\ r > 1
                  /\ res.flows[r - 1].type = "coupon"
                  /\ res.flows[r - 1].date = res.flows[r].date

\* a regular schedule with an override date merged in among the walked ones
C14_Witness ==
    /\ op = "cashflows" /\ calc = "REGULAR"
    /\ Len(res.flows) >= 5
    /\ spec.first_coupon # NoDate
    /\ \E i \in 2..(Len(res.flows) - 2) : res.flows[i].date = spec.first_coupon

RECURSIVE SumAmounts(_)
SumAmounts(flows) ==
    IF flows = <<>> THEN Zero
    ELSE QAdd(flows[1].amount, SumAmounts(Tail(flows)))

\* C15: for every regular-coupon spec the amounts of all entries of
\* cashflows(spec) sum to face + face*coupon_rate*(n/frequency), n the
\* number of dates of the schedule built for the spec.
C15_CashflowSum ==
    (op = "cashflows" /\ calc = "REGULAR") =>
        SumAmounts(res.flows)
          = QAdd(spec.face,
                 QMul(QMul(spec.face, spec.coupon_rate),
                      Q(Len(build(spec)), spec.frequency)))

\* several coupons, some of them dated before settlement
C15_Witness ==
    /\ op = "cashflows" /\ calc = "REGULAR"
    /\ spec.face # Zero
    /\ Len(build(spec)) >= 3
    /\ DateLt(res.flows[1].date, spec.settlement)
    /\ QLt(spec.face, SumAmounts(res.flows))

\* the schedule dates after settlement
DatesAfter(sp) == {d \in SeqSet(build(sp)) : DateLt(sp.settlement, d)}

\* C16: RegularCoupon price_from_yield counts exactly the schedule dates
\* strictly after settlement, each with the coupon face*coupon_rate/frequency,
\* and adds face once, on the final schedule date; at ytm = 0 the dirty price
\* is (number of schedule dates after settlement)*face*coupon_rate/frequency
\* + face, which is the sum of the cashflows() entries dated after
\* settlement.  The spec is a BondSpec of the data model: maturity is after
\* settlement.
C16_DirtyAtZeroYield ==
    (/\ op = "price_from_yield" /\ calc = "REGULAR" /\ arg = Zero
     /\ DateLt(spec.settlement, spec.maturity))
        => /\ res.kind = "PricingResult"
           /\ res.dirty
                = QAdd(QMul(QInt(Cardinality(DatesAfter(spec))),
                            QDiv(QMul(spec.face, spec.coupon_rate),
                                 QInt(spec.frequency))),
                       spec.face)
           /\ res.dirty
                = SumAmounts(flows_after(cashflows(calc, spec), spec.settlement))

\* some schedule dates are not after settlement and several are
C16_Witness ==
    /\ op = "price_from_yield" /\ calc = "REGULAR" /\ arg = Zero
    /\ DateLt(spec.settlement, spec.maturity)
    /\ spec.face # Zero
    /\ Cardinality(DatesAfter(spec)) >= 2
    /\ Cardinality(DatesAfter(spec)) < Len(build(spec))
    /\ res.kind = "PricingResult"

-----------------------------------------------------------------------------
(* Interest at maturity                                                    *)

IssuedAtSettlement ==
    /\ spec # NoSpec /\ spec.bond_type = "INTEREST_AT_MATURITY"
    /\ spec.issue_date \in {NoDate, spec.settlement}

\* C17: for an interest-at-maturity spec whose issue date equals settlement,
\* or is absent, accrued_interest is exactly 0 and price_from_yield returns
\* clean = dirty, for every day-count convention, face and coupon rate.
C17_NoAccrualAtIssue ==
    IssuedAtSettlement =>
        /\ op = "accrued_interest" => res = [kind |-> "float", value |-> Zero]
        /\ (op = "price_from_yield" /\ calc = "INTEREST_AT_MATURITY") =>
             /\ res.kind = "PricingResult"
             /\ res.accrued = Zero
             /\ res.clean = res.dirty

\* a coupon-bearing bond issued on the settlement day, priced above zero
C17_Witness ==
    /\ IssuedAtSettlement /\ spec.issue_date = spec.settlement
    /\ op = "price_from_yield" /\ calc = "INTEREST_AT_MATURITY"
    /\ spec.coupon_rate # Zero /\ spec.face # Zero
    /\ res.kind = "PricingResult" /\ QLt(spec.face, res.dirty)

-----------------------------------------------------------------------------
(* BondSpec                                                                *)

\* C18: every BondSpec that reaches a calculator has maturity > settlement
\* and, when an issue date is present, issue_date <= settlement; neither a
\* direct construction nor request_to_bond_spec yields a spec that does not.
C18_SpecInvariant ==
    (spec # NoSpec /\ calc # "none") =>
        /\ DateLt(spec.settlement, spec.maturity)
        /\ spec.issue_date # NoDate => DateLe(spec.issue_date, spec.settlement)

-----------------------------------------------------------------------------
(* Response                                                                *)

\* the coupon entries of a response dated strictly after settlement
FutureCoupons(r, sp) ==
    {i \in 1..Len(r.cashflows) :
        r.cashflows[i].type = "coupon" /\ DateLt(sp.settlement, r.cashflows[i].date)}

\* C19: in the response built from a calculator's cashflows for a spec,
\* nextCouponDate is the date of the earliest coupon cashflow strictly after
\* the spec's settlement date, and is absent when there is none, also when
\* an issue date before settlement puts coupon dates at or before settlement
\* into the list.  The spec has maturity after settlement.
C19_NextCouponDate ==
    (/\ op = "pricing_result_to_response" /\ "cashflows" \in res.keys
     /\ DateLt(spec.settlement, spec.maturity)) =>
        IF FutureCoupons(res, spec) = {}
        THEN "nextCouponDate" \notin res.keys
        ELSE /\ "nextCouponDate" \in res.keys
             /\ \E i \in FutureCoupons(res, spec) :
                  /\ res.nextCouponDate = res.cashflows[i].date
                  /\ \A j \in FutureCoupons(res, spec) :
                       DateLe(res.cashflows[i].date, res.cashflows[j].date)

-----------------------------------------------------------------------------
(* Single-date schedules                                                   *)

\* the stop line is at or after maturity minus one coupon period, and no
\* override date is supplied
WithinOnePeriod(sp) ==
    /\ sp.first_coupon = NoDate /\ sp.last_coupon = NoDate
    /\ DateLe(SubMonths(sp.maturity, 12 \div sp.frequency),
              IF sp.issue_date # NoDate THEN sp.issue_date ELSE sp.settlement)

CouponOf(sp) == QDiv(QMul(sp.face, sp.coupon_rate), QInt(sp.frequency))

\* C20: when the stop line (issue date if present, else settlement) is at or
\* after maturity minus one coupon period and no override dates are given,
\* build returns exactly [maturity], and on that schedule RegularCoupon
\* accrued_interest, cashflows and price_from_yield complete without error:
\* accrued is 0, the cashflows are one coupon and one redemption on maturity,
\* and the dirty price (of a spec with maturity after settlement) is the
\* single discounted coupon-plus-face.
C20_SingleDateSchedule ==
    (spec # NoSpec /\ WithinOnePeriod(spec)) =>
        /\ op = "build" => res.dates = <<spec.maturity>>
        /\ (op = "accrued_interest" /\ spec.bond_type = "REGULAR")
             => res = [kind |-> "float", value |-> Zero]
        /\ (op = "cashflows" /\ calc = "REGULAR")
             => res.flows = <<Cashflow(spec.maturity, CouponOf(spec), "coupon"),
                              Cashflow(spec.maturity, spec.face, "redemption")>>
        /\ (/\ op = "price_from_yield" /\ calc = "REGULAR"
            /\ DateLt(spec.settlement, spec.maturity))
             => /\ res.kind = "PricingResult"
                /\ res.accrued = Zero
                /\ res.dirty = Fl(QDiv(QAdd(CouponOf(spec), spec.face),
                                       growth(spec, arg, spec.maturity)))

\* the one flow of a single-date schedule, discounted at a positive yield
C20_Witness ==
    /\ spec # NoSpec /\ WithinOnePeriod(spec)
    /\ op = "price_from_yield" /\ calc = "REGULAR"
    /\ spec.face # Zero /\ arg = <<1, 20>>
    /\ res.kind = "PricingResult"
    /\ QLt(Zero, res.dirty) /\ QLt(res.dirty, QAdd(CouponOf(spec), spec.face))

-----------------------------------------------------------------------------
(* newton_raphson: the value returned                                      *)

\* C21: when newton_raphson returns, the value is x_k - f(x_k)/df(x_k) for
\* the first pass k whose step has |step| < tol: every earlier pass had
\* |step| >= tol and a non-zero derivative, each pass started from the
\* updated iterate of the one before, and k (counted from 0) is below
\* max_iter; and a call (of a positive tolerance) whose first pass finds
\* f(x0) = 0 and df(x0) # 0 returns x0 in that pass.
C21_NRReturnsUpdatedIterate ==
    /\ nr.status = "returned" =>
         /\ Len(nr.trace) \in 1..nr.max_iter
         /\ nr.trace[1].x = nr.x0
         /\ \A k \in 1..(Len(nr.trace) - 1) :
              /\ nr.trace[k].dfx # Zero
              /\ ~AbsLtTol(StepOf(nr.trace[k]), nr.tol)
              /\ nr.trace[k + 1].x = QSub(nr.trace[k].x, StepOf(nr.trace[k]))
         /\ nr.trace[Len(nr.trace)].dfx # Zero
         /\ AbsLtTol(StepOf(nr.trace[Len(nr.trace)]), nr.tol)
         /\ nr.value = QSub(nr.trace[Len(nr.trace)].x,
                            StepOf(nr.trace[Len(nr.trace)]))
    /\ (/\ nr.status # "idle" /\ Len(nr.trace) >= 1
        /\ nr.trace[1].fx = Zero /\ nr.trace[1].dfx # Zero)
         => /\ nr.status = "returned" /\ nr.value = nr.x0
            /\ Len(nr.trace) = 1

\* the third pass was the first with a step below the tolerance, and the
\* value returned is not the iterate that pass started from
C21_Witness ==
    /\ nr.status = "returned" /\ Len(nr.trace) = 3
    /\ nr.max_iter = 3
    /\ nr.value # nr.trace[3].x
    /\ nr.value # nr.x0

-----------------------------------------------------------------------------
(* yield_from_price and the solver                                         *)

SolverCall ==
    op = "yield_from_price" /\ calc \in {"INTEREST_AT_MATURITY", "REGULAR"}

\* the one newton_raphson call of yield_from_price, started from the guess
SolveOf(sp, clean_price, accrued, g) ==
    newton_raphson(CalcProb(calc, sp, QAdd(clean_price, accrued)), g,
                   DefaultTol, DefaultMaxIter)

\* the outcome of the call is the outcome of exactly one newton_raphson call
\* started from x0 = guess: its error, or the price at the value it returned
OneSolveDecides ==
    /\ nrCalls = 1
    /\ \E sol \in {SolveOf(spec, arg, accrued_interest(spec).v, guess)} :
         IF sol.status = "raised"
         THEN res = Raised(sol.error)
              /\ sol.error \in {ZeroDerivative, DidNotConverge, ZeroDivisionError}
         ELSE res = price_from_yield(calc, spec, sol.value)

-----------------------------------------------------------------------------
(* Outcomes of a pricing call                                              *)

\* the spec and the price are valid at the boundary of the engine
BoundaryValid ==
    /\ spec # NoSpec
    /\ DateLt(spec.settlement, spec.maturity)
    /\ QLe(Zero, spec.face)
    /\ QLe(Zero, spec.coupon_rate) /\ QLe(spec.coupon_rate, One)
    /\ spec.day_count \in DayCounts /\ spec.frequency \in Frequencies
    /\ op = "yield_from_price" => QLe(Zero, arg)

\* C23: for every variant a price_from_yield or yield_from_price call on a
\* boundary-valid input ends in a complete PricingResult or in an error of
\* the taxonomy, which for yield_from_price is the zero-derivative or the
\* did-not-converge error of newton_raphson; no other failure, such as a
\* division by zero in the price formula or in the closed-form inverse,
\* reaches the caller.
C23_ResultOrTaxonomyError ==
    (op \in {"price_from_yield", "yield_from_price"} /\ BoundaryValid) =>
        \/ res.kind = "PricingResult"
        \/ /\ op = "yield_from_price"
           /\ res.kind = "raise"
           /\ res.error \in {ZeroDerivative, DidNotConverge}

-----------------------------------------------------------------------------
(* The injected day-count function                                         *)

\* C24: within one request every call of the injected day-count function,
\* the plain local one or the async one that create_daycount_function
\* returns, has run to completion and given its year fraction before the
\* engine computes with it or makes the next day-count call, and no two
\* day-count calls of the request are in progress together.
C24_DayCountCallsComplete ==
    req # NoReq =>
        /\ \A k \in 1..(Len(req.calls) - 1) : req.calls[k].status = "done"
        /\ \A k \in req.used :
             req.calls[k].status = "done" /\ req.calls[k].value # NoValue
        /\ Cardinality(Running(req)) <= 1
        /\ req.status = "returned" =>
             \A k \in 1..Len(req.calls) : req.calls[k].status = "done"

-----------------------------------------------------------------------------
(* Independence of requests                                                *)

CallOps ==
    {"price_from_yield", "yield_from_price", "cashflows", "accrued_interest",
     "build"}

\* the class of the calculator that a newly constructed factory gives
FreshClass ==
    get(CalculatorFactory(factory._dcf, "None"),
        get(factory, calc).v.class).v.class

\* the outcome of the last call, made on newly constructed objects
FreshOutcome ==
    CASE op = "price_from_yield" -> price_from_yield(FreshClass, spec, arg)
      [] op = "yield_from_price" ->
            yield_from_price(FreshClass, spec, arg, guess).r
      [] op = "cashflows" ->
            [kind |-> "cashflows", flows |-> cashflows(FreshClass, spec)]
      [] op = "accrued_interest" ->
            The({IF a.ok THEN [kind |-> "float", value |-> a.v] ELSE Raised(a.e)
                 : a \in {accrued_interest(spec)}})
      [] op = "build" ->
            [kind |-> "schedule",
             dates |-> ScheduleBuilder_build(NoAttrs, spec).ret]

-----------------------------------------------------------------------------
(* The walk back from maturity                                             *)

NoOverrides(sp) == sp.first_coupon = NoDate /\ sp.last_coupon = NoDate

StopLine(sp) == IF sp.issue_date # NoDate THEN sp.issue_date ELSE sp.settlement

\* maturity - k*p months for k = 0, 1, 2, ..., down to a date that is
\* before the year of the stop line
Anchored(sp) ==
    {SubMonths(sp.maturity, k * (12 \div sp.frequency)) :
        k \in 0..(12 * (sp.maturity[1] - StopLine(sp)[1] + 1))}

\* C26: for a spec without override dates and with period p = 12/frequency
\* months, build returns exactly the dates maturity - k*p months (k = 0, 1,
\* 2, ..., the day clamped to the length of the target month) that are
\* strictly after the stop line (issue date if present, else settlement),
\* and maturity itself; the first such date at or before the stop line and
\* every earlier one are left out.
C26_AnchoredWalkBack ==
    (op = "build" /\ NoOverrides(spec)) =>
        /\ StrictlyIncreasing(res.dates)
        /\ SeqSet(res.dates)
             = {spec.maturity}
                 \cup {d \in Anchored(spec) : DateLt(StopLine(spec), d)}

-----------------------------------------------------------------------------
(* Override dates                                                          *)

\* the spec with its override dates taken out
WithoutOverrides(sp) == [sp EXCEPT !.first_coupon = NoDate, !.last_coupon = NoDate]

Overrides(sp) == {sp.first_coupon, sp.last_coupon} \ {NoDate}

\* C27: a first_coupon or last_coupon override leaves every walked-back date
\* as it is: build of the spec is the sorted union of build of the spec
\* without overrides and the override dates supplied, each override put in
\* once if it is not there already, and no other date added, moved or
\* removed.
C27_OverridesOnlyInsert ==
    op = "build" =>
        /\ SeqSet(res.dates)
             = SeqSet(build(WithoutOverrides(spec))) \cup Overrides(spec)
        /\ Len(res.dates)
             = Cardinality(SeqSet(build(WithoutOverrides(spec)))
                             \cup Overrides(spec))
        /\ StrictlyIncreasing(res.dates)

\* a first coupon date that the walk gives already, and a last coupon date
\* that it does not give
C27_Witness ==
    /\ op = "build"
    /\ spec.first_coupon \in SeqSet(build(WithoutOverrides(spec)))
    /\ spec.last_coupon # NoDate
    /\ spec.last_coupon \notin SeqSet(build(WithoutOverrides(spec)))
    /\ Len(res.dates) = Len(build(WithoutOverrides(spec))) + 1

-----------------------------------------------------------------------------
(* Request.json                                                            *)

JsonCalls == {i \in 1..Len(wreq.log) : wreq.log[i].call = "json"}

\* C28: in any sequence of calls of Request.json() on one Request, every call
\* returns a parsed JSON object (a dict) or raises ValueError; a body that is
\* valid JSON but not an object is returned by no call, calls after a first
\* call that raised included; and after a call that succeeded the body of the
\* raw request is not read again.
C28_JsonObjectOrValueError ==
    /\ \A i \in JsonCalls :
         IF wreq.log[i].out.ok
         THEN isinstance(wreq.log[i].out.v, "dict")
         ELSE wreq.log[i].out.e = ValueError
    /\ \A i \in JsonCalls : \A j \in JsonCalls :
         (i < j /\ wreq.log[i].out.ok)
            => wreq.log[j].reads = wreq.log[j - 1].reads

-----------------------------------------------------------------------------
(* A regular bond without an issue date                                    *)

\* no issue date, and no override date at or before settlement
StartsAfterSettlement(sp) ==
    /\ sp.issue_date = NoDate
    /\ \A d \in Overrides(sp) : DateLt(sp.settlement, d)

\* C29: for a regular-coupon spec with no issue date and no first_coupon or
\* last_coupon override at or before settlement, every schedule date is
\* strictly after settlement, so accrued_interest returns 0 and
\* price_from_yield returns clean = dirty, whatever the settlement date, the
\* coupon rate and the convention.  The spec is a BondSpec of the data model:
\* maturity is after settlement.
C29_NoAccrualWithoutIssueDate ==
    (/\ op = "price_from_yield" /\ calc = "REGULAR"
     /\ spec.bond_type = "REGULAR"
     /\ StartsAfterSettlement(spec)
     /\ DateLt(spec.settlement, spec.maturity))
        => /\ \A d \in SeqSet(build(spec)) : DateLt(spec.settlement, d)
           /\ accrued_interest(spec) = Val(Zero)
           /\ res.kind = "PricingResult"
           /\ res.accrued = Zero
           /\ res.clean = res.dirty

\* a coupon-paying bond with several dates and an override after settlement
C29_Witness ==
    /\ op = "price_from_yield" /\ calc = "REGULAR"
    /\ spec.bond_type = "REGULAR"
    /\ StartsAfterSettlement(spec)
    /\ spec.last_coupon # NoDate
    /\ spec.face # Zero /\ spec.coupon_rate # Zero
    /\ Len(build(spec)) >= 3
    /\ res.kind = "PricingResult"
    /\ res.accrued = Zero /\ res.clean = res.dirty /\ res.dirty # Zero

-----------------------------------------------------------------------------
(* eom_rule and stub_position                                              *)

\* the outcome of the call o of calculator c on spec sp
OutcomeOf(c, o, sp, a, g) ==
    CASE o = "price_from_yield" -> price_from_yield(c, sp, a)
      [] o = "yield_from_price" -> yield_from_price(c, sp, a, g).r
      [] o = "cashflows" -> [kind |-> "cashflows", flows |-> cashflows(c, sp)]
      [] o = "accrued_interest" ->
            The({IF r.ok THEN [kind |-> "float", value |-> r.v] ELSE Raised(r.e)
                 : r \in {accrued_interest(sp)}})
      [] o = "build" -> [kind |-> "schedule", dates |-> build(sp)]

\* C30: eom_rule and stub_position have no effect on any output of the
\* engine: two specs that differ in eom_rule, in stub_position or in both,
\* and in nothing else, give the same schedule, cashflows, accrued interest
\* and pricing result from each of the calculators.
C30_EomAndStubInert ==
    op \in CallOps =>
        \A e \in BOOLEAN : \A p \in StubPositions :
            res = OutcomeOf(calc, op,
                            [spec EXCEPT !.eom_rule = e, !.stub_position = p],
                            arg, guess)

\* a quarterly schedule walked back from a month end, its days clamped, for
\* a spec with the end-of-month rule set and a stub position named
C30_Witness ==
    /\ op = "build"
    /\ spec.eom_rule /\ spec.stub_position = "SHORT_FIRST"
    /\ spec.frequency = 4
    /\ \E i \in 1..Len(res.dates) :
         res.dates[i][3] # DaysInMonth(res.dates[i][1], res.dates[i][2])
    /\ res = OutcomeOf(calc, op,
                       [spec EXCEPT !.eom_rule = FALSE, !.stub_position = "NONE"],
                       arg, guess)
====
